---- MODULE Spec2Model ----
(***************************************************************************)
(* Workflow orchestration engine of the forex multi-agent system:          *)
(* query_parser -> parallel_analysis -> risk -> synthesis -> report -> end *)
(* The graph state is the ForexAgentState record; every node returns a     *)
(* partial update that the graph writes into the state channel by channel. *)
(***************************************************************************)
EXTENDS Integers, Sequences, FiniteSets, TLC

(***************************************************************************)
(* Python values.  None is a record of its own shape; a dict is a function *)
(* from key strings to values; a str that the code inspects character by   *)
(* character is a sequence of one-character strings, boxed by Str where it *)
(* shares a slot with None.                                                *)
(***************************************************************************)
None == [none |-> TRUE]

EmptyDict == [x \in {} |-> TRUE]

IsNone(x) == "none" \in DOMAIN x

Str(chars) == [str |-> chars]

\* Python truthiness of an Optional[dict]: None and {} are both falsy
Truthy(x) == ~IsNone(x) /\ DOMAIN x # {}

\* `x or {}`
OrEmpty(x) == IF Truthy(x) THEN x ELSE EmptyDict

\* `{**d, k: v}`
DictSet(d, k, v) == [x \in (DOMAIN d) \cup {k} |-> IF x = k THEN v ELSE d[x]]

\* `a.update(b)` / `{**a, **b}`
DictMerge(a, b) == [x \in (DOMAIN a) \cup (DOMAIN b) |-> IF x \in DOMAIN b THEN b[x] ELSE a[x]]

\* `d.get(k, default)`
DictGet(d, k, default) == IF k \in DOMAIN d THEN d[k] ELSE default

Max2(a, b) == IF a >= b THEN a ELSE b

Max3(a, b, c) == Max2(a, Max2(b, c))

(***************************************************************************)
(* Query strings and the deterministic fallback parser.                    *)
(***************************************************************************)
UpperLetters == <<"A","B","C","D","E","F","G","H","I","J","K","L","M",
                  "N","O","P","Q","R","S","T","U","V","W","X","Y","Z">>

LowerLetters == <<"a","b","c","d","e","f","g","h","i","j","k","l","m",
                  "n","o","p","q","r","s","t","u","v","w","x","y","z">>

IndexIn(letters, c) == IF \E i \in 1..Len(letters) : letters[i] = c
                       THEN CHOOSE i \in 1..Len(letters) : letters[i] = c
                       ELSE 0

\* str.lower() and str.upper(), one character at a time
LowerChar(c) == IF IndexIn(UpperLetters, c) > 0 THEN LowerLetters[IndexIn(UpperLetters, c)] ELSE c

UpperChar(c) == IF IndexIn(LowerLetters, c) > 0 THEN UpperLetters[IndexIn(LowerLetters, c)] ELSE c

Lower(s) == [i \in 1..Len(s) |-> LowerChar(s[i])]

Upper(s) == [i \in 1..Len(s) |-> UpperChar(s[i])]

\* `needle in hay`
Contains(hay, needle) ==
    \E i \in 1..(Len(hay) - Len(needle) + 1) :
        \A j \in 1..Len(needle) : hay[i + j - 1] = needle[j]

IsUpperLetter(c) == IndexIn(UpperLetters, c) > 0

\* [/\s]
IsSeparator(c) == c \in {"/", " "}

\* the static alias table, in the order the dict is written
mappings == <<
    [keyword |-> <<"g","o","l","d">>,                 pair |-> <<"X","A","U","/","U","S","D">>],
    [keyword |-> <<"s","i","l","v","e","r">>,         pair |-> <<"X","A","G","/","U","S","D">>],
    [keyword |-> <<"o","i","l">>,                     pair |-> <<"C","L","/","U","S","D">>],
    [keyword |-> <<"b","i","t","c","o","i","n">>,     pair |-> <<"B","T","C","/","U","S","D">>],
    [keyword |-> <<"b","t","c">>,                     pair |-> <<"B","T","C","/","U","S","D">>],
    [keyword |-> <<"e","t","h","e","r","e","u","m">>, pair |-> <<"E","T","H","/","U","S","D">>],
    [keyword |-> <<"e","t","h">>,                     pair |-> <<"E","T","H","/","U","S","D">>],
    [keyword |-> <<"e","u","r","o">>,                 pair |-> <<"E","U","R","/","U","S","D">>],
    [keyword |-> <<"p","o","u","n","d">>,             pair |-> <<"G","B","P","/","U","S","D">>],
    [keyword |-> <<"y","e","n">>,                     pair |-> <<"U","S","D","/","J","P","Y">>] >>

DefaultPair == <<"E","U","R","/","U","S","D">>

\* re.search(r"([A-Z]{3})[/\s]?([A-Z]{3})", u) anchored at position i:
\* the offset of the second group (3 without separator, 4 with one), 0 if no match
PairMatchAt(u, i) ==
    IF ~(i + 5 <= Len(u) /\ \A j \in 0..2 : IsUpperLetter(u[i + j])) THEN 0
    ELSE IF IsSeparator(u[i + 3])
         THEN IF i + 6 <= Len(u) /\ \A j \in 4..6 : IsUpperLetter(u[i + j]) THEN 4 ELSE 0
         ELSE IF \A j \in 3..5 : IsUpperLetter(u[i + j]) THEN 3 ELSE 0

\* variant: the pair pattern is tried before the alias table
_fallback_parse_pattern_first(user_query) ==
    LET query_lower == Lower(user_query)
        hits  == {k \in 1..Len(mappings) : Contains(query_lower, mappings[k].keyword)}
        u     == Upper(user_query)
        found == {i \in 1..Len(u) : PairMatchAt(u, i) > 0}
    IN  IF found # {}
        THEN LET i   == CHOOSE p \in found : \A p2 \in found : p <= p2
                 off == PairMatchAt(u, i)
             IN  <<u[i], u[i + 1], u[i + 2], "/", u[i + off], u[i + off + 1], u[i + off + 2]>>
        ELSE IF hits # {}
        THEN mappings[CHOOSE k \in hits : \A k2 \in hits : k <= k2].pair
        ELSE DefaultPair

_fallback_parse(user_query) ==
    LET query_lower == Lower(user_query)
        hits  == {k \in 1..Len(mappings) : Contains(query_lower, mappings[k].keyword)}
        u     == Upper(user_query)
        found == {i \in 1..Len(u) : PairMatchAt(u, i) > 0}
    IN  IF hits # {}
        THEN mappings[CHOOSE k \in hits : \A k2 \in hits : k <= k2].pair
        ELSE IF found # {}
        THEN LET i   == CHOOSE p \in found : \A p2 \in found : p <= p2
                 off == PairMatchAt(u, i)
             IN  <<u[i], u[i + 1], u[i + 2], "/", u[i + off], u[i + off + 1], u[i + off + 2]>>
        ELSE DefaultPair

\* queries submitted to the workflow
Queries == { <<"g","o","l","d">>,
             <<"E","U","R","U","S","D">>,
             <<"h","i">> }

(***************************************************************************)
(* The graph state (ForexAgentState) and the channel writes.               *)
(***************************************************************************)
\* keys of the ForexAgentState schema; a node's update is written for these keys only
StateKeys == {"messages", "user_query", "query_context", "pair",
              "news_result", "technical_result", "fundamental_result", "risk_result",
              "decision", "step_count", "should_continue", "errors"}

\* the graph writes each key of a node's update over the stored value (no reducer)
ApplyUpdate(st, upd) ==
    [k \in DOMAIN st |-> IF k \in DOMAIN upd THEN upd[k] ELSE st[k]]

\* `state.get(k)` : None for a key the state does not hold
StateGet(st, k) == IF k \in DOMAIN st THEN st[k] ELSE None

\* the inputs an entry point hands to the graph: ForexAgentSystem.analyze passes
\* errors=None, StreamingForexSystem.analyze_stream passes errors={}
EntryPoints == {"analyze", "analyze_stream"}

inputs(entry, query) ==
    LET given == [user_query |-> query, query_context |-> None, pair |-> None,
                  messages |-> <<>>, step_count |-> 0,
                  news_result |-> None, technical_result |-> None,
                  fundamental_result |-> None, risk_result |-> None,
                  decision |-> None, report_result |-> None, should_continue |-> TRUE,
                  errors |-> IF entry = "analyze" THEN None ELSE EmptyDict]
    IN  [k \in StateKeys |-> given[k]]

(***************************************************************************)
(* What a node hands back: a partial state update (a dict) or, when an     *)
(* exception leaves the node function, that exception.                     *)
(***************************************************************************)
Exception(msg) == [exception |-> msg]

IsException(r) == DOMAIN r = {"exception"}

(***************************************************************************)
(* Query normaliser.  The reasoning call either returns a JSON mapping,    *)
(* raises (no key, network error, timeout), returns text json.loads        *)
(* rejects, or returns JSON that is not a mapping (.get then raises).      *)
(***************************************************************************)
ParserContexts == { [pair |-> Str(<<"X","A","U","/","U","S","D">>), asset_type |-> "commodity"],
                    [asset_type |-> "forex"] }

ParserCalls == {[kind |-> "ok", json |-> c] : c \in ParserContexts}
               \cup {[kind |-> "raised", msg |-> "timeout"],
                     [kind |-> "unparsable", msg |-> "JSONDecodeError"],
                     [kind |-> "not_mapping", msg |-> "AttributeError"]}

query_parser_node(st, call) ==
    IF call.kind = "ok"
    THEN [query_context |-> call.json,
          pair          |-> DictGet(call.json, "pair", Str(DefaultPair)),
          step_count    |-> st.step_count + 1]
    ELSE \* except branch: `{**state.get("errors", {}), "query_parser": str(e)}`
         \* the key is present, so .get returns the stored value; unpacking None raises
         IF IsNone(st.errors)
         THEN Exception("TypeError")
         ELSE [query_context |-> [pair |-> Str(_fallback_parse(st.user_query)),
                                  asset_type |-> "unknown",
                                  parse_error |-> call.msg],
               pair          |-> Str(_fallback_parse(st.user_query)),
               step_count    |-> st.step_count + 1,
               errors        |-> DictSet(st.errors, "query_parser", call.msg)]

(***************************************************************************)
(* The three analysis branches.  A provider returns a success result,      *)
(* returns a success=False result (it caught its own failure), or raises   *)
(* into the node's try block; "escaped" is an exception raised by the node *)
(* coroutine outside its try block, which reaches the caller.              *)
(***************************************************************************)
Branches == {"news", "technical", "fundamental"}

Slot == [news |-> "news_result", technical |-> "technical_result",
         fundamental |-> "fundamental_result"]

AgentName == [news |-> "NewsAgent", technical |-> "TechnicalAgent",
              fundamental |-> "FundamentalAgent"]

\* data of a successful provider result; the technical provider may or may not
\* supply a stop_loss (it is copied from the reasoning output)
ProviderData(b) ==
    IF b = "technical"
    THEN { [current_price |-> 10850, stop_loss |-> 10800, take_profit |-> 10950],
           [current_price |-> 10850] }
    ELSE { [summary |-> "analysis"] }

ProviderCalls(b) ==
    {[kind |-> "ok", result |-> [success |-> TRUE, agent |-> AgentName[b], data |-> d]] :
        d \in ProviderData(b)}
    \cup {[kind |-> "failed",
           result |-> [success |-> FALSE, agent |-> AgentName[b],
                       error |-> "provider error", data |-> EmptyDict]],
          [kind |-> "raised", msg |-> "provider raised"],
          [kind |-> "escaped", msg |-> "node raised"]}

\* the progress sink (the stream writer) raises at a stage's first write, which
\* every stage makes inside its try block before it calls its provider
SinkRaised == [kind |-> "raised", msg |-> "sink raised"]

IsSink(call) == call.kind = "raised" /\ call.msg = SinkRaised.msg


agent_node(b, st, call) ==
    IF call.kind = "escaped"
    THEN Exception(call.msg)
    ELSE IF call.kind = "raised"
    THEN (Slot[b] :> [success |-> FALSE, error |-> call.msg])
         @@ ("step_count" :> st.step_count + 1)
         @@ ("errors" :> DictSet(OrEmpty(st.errors), b, call.msg))
    ELSE (Slot[b] :> call.result)
         @@ ("step_count" :> st.step_count + 1)

news_node(st, call) == agent_node("news", st, call)

technical_node(st, call) == agent_node("technical", st, call)

fundamental_node(st, call) == agent_node("fundamental", st, call)

branch_node(b, st, call) ==
    CASE b = "news"        -> news_node(st, call)
      [] b = "technical"   -> technical_node(st, call)
      [] b = "fundamental" -> fundamental_node(st, call)

(***************************************************************************)
(* Parallel analysis coordinator.                                          *)
(***************************************************************************)
\* variant: the synthesized update of a raised branch carries no errors entry
branch_update_no_errors(b, st, r) ==
    IF IsException(r)
    THEN (Slot[b] :> [success |-> FALSE, error |-> r.exception])
         @@ ("step_count" :> st.step_count + 1)
    ELSE r

\* lines 54-76: a branch whose coroutine raised gets a synthesized update
branch_update(b, st, r) ==
    IF IsException(r)
    THEN (Slot[b] :> [success |-> FALSE, error |-> r.exception])
         @@ ("step_count" :> st.step_count + 1)
         @@ ("errors" :> (b :> r.exception))
    ELSE r

\* `if update.get("errors"): errors.update(update["errors"])`
merge_errors(errors, update) ==
    IF Truthy(DictGet(update, "errors", None))
    THEN DictMerge(errors, update["errors"])
    ELSE errors

\* max(...) over the three branch step counts
max_steps(news_update, technical_update, fundamental_update) ==
    Max3(DictGet(news_update, "step_count", 0),
         DictGet(technical_update, "step_count", 0),
         DictGet(fundamental_update, "step_count", 0))

\* the concurrent path: results of asyncio.gather(..., return_exceptions=True) merged
merge_results(st, results) ==
    LET news_update        == branch_update("news", st, results["news"])
        technical_update   == branch_update("technical", st, results["technical"])
        fundamental_update == branch_update("fundamental", st, results["fundamental"])
        errors == merge_errors(merge_errors(merge_errors(EmptyDict, news_update),
                                            technical_update), fundamental_update)
    IN  [news_result        |-> DictGet(news_update, "news_result", None),
         technical_result   |-> DictGet(technical_update, "technical_result", None),
         fundamental_result |-> DictGet(fundamental_update, "fundamental_result", None),
         step_count         |-> max_steps(news_update, technical_update, fundamental_update),
         errors             |-> IF DOMAIN errors # {} THEN errors ELSE None]

\* variant: the fallback returns without recording why it was needed
sequential_return_unrecorded(st, news_update, technical_update, fundamental_update, e) ==
    [news_result        |-> DictGet(news_update, "news_result", None),
     technical_result   |-> DictGet(technical_update, "technical_result", None),
     fundamental_result |-> DictGet(fundamental_update, "fundamental_result", None),
     step_count         |-> DictGet(fundamental_update, "step_count", 0),
     errors             |-> OrEmpty(st.errors)]

\* the sequential fallback's return value; e is the failure of the concurrent attempt
sequential_return(st, news_update, technical_update, fundamental_update, e) ==
    [news_result        |-> DictGet(news_update, "news_result", None),
     technical_result   |-> DictGet(technical_update, "technical_result", None),
     fundamental_result |-> DictGet(fundamental_update, "fundamental_result", None),
     step_count         |-> DictGet(fundamental_update, "step_count", 0),
     errors             |-> DictSet(OrEmpty(st.errors), "parallel_execution", e)]

(***************************************************************************)
(* Risk advisor (advisory only) and the conditional edge after it.         *)
(***************************************************************************)
RiskCalls ==
    {[kind |-> "ok", result |-> [success |-> TRUE, agent |-> "RiskAgent",
                                 data |-> [trade_approved |-> TRUE]]],
     [kind |-> "ok", result |-> [success |-> TRUE, agent |-> "RiskAgent",
                                 data |-> [trade_approved |-> FALSE,
                                           rejection_reason |-> <<"Risk too small">>]]],
     [kind |-> "failed", result |-> [success |-> FALSE, agent |-> "RiskAgent",
                                     error |-> "provider error", data |-> EmptyDict]],
     [kind |-> "raised", msg |-> "provider raised"]}

\* variant: the stage checks the entry price only before it calls the provider
RiskInvoked_without_stop_check(st) ==
    /\ ~IsNone(st.technical_result)
    /\ DictGet(st.technical_result, "success", FALSE)
    /\ "current_price" \in DOMAIN st.technical_result.data

\* the provider is reached only past the two early returns
RiskInvoked(st) ==
    /\ ~IsNone(st.technical_result)
    /\ DictGet(st.technical_result, "success", FALSE)
    /\ "current_price" \in DOMAIN st.technical_result.data
    /\ "stop_loss" \in DOMAIN st.technical_result.data

risk_error_update(st, msg) ==
    [risk_result |-> [success |-> FALSE, error |-> msg,
                      data |-> [trade_approved |-> FALSE,
                                rejection_reason |-> <<"Risk calculation error: ", msg>>]],
     step_count  |-> st.step_count + 1,
     errors      |-> DictSet(OrEmpty(st.errors), "risk", msg)]

\* variant: the risk stage also rewrites the technical result it consumed
risk_node_rewrites_technical(st, call) ==
    [technical_result |-> [success |-> FALSE, error |-> "consumed by risk"],
     risk_result |-> [success |-> FALSE, error |-> "Missing required price data",
                      data |-> [trade_approved |-> FALSE,
                                rejection_reason |-> <<"Incomplete technical data">>]],
     step_count  |-> st.step_count + 1]

risk_node(st, call) ==
    IF IsNone(st.technical_result)
    THEN risk_error_update(st, "AttributeError")
    ELSE IF ~DictGet(st.technical_result, "success", FALSE)
    THEN [risk_result |-> [success |-> FALSE,
                           error |-> "Technical analysis required for risk calculation",
                           data |-> [trade_approved |-> FALSE,
                                     rejection_reason |-> <<"Technical analysis unavailable">>]],
          step_count  |-> st.step_count + 1]
    ELSE IF ~RiskInvoked(st)
    THEN [risk_result |-> [success |-> FALSE,
                           error |-> "Missing required price data",
                           data |-> [trade_approved |-> FALSE,
                                     rejection_reason |-> <<"Incomplete technical data">>]],
          step_count  |-> st.step_count + 1]
    ELSE IF call.kind = "raised"
    THEN risk_error_update(st, call.msg)
    ELSE [risk_result |-> call.result,
          step_count  |-> st.step_count + 1]

\* variant: a trade the risk stage did not approve ends the run
should_continue_after_risk_blocking(st) ==
    LET risk_result == st.risk_result
    IN  IF ~DictGet(risk_result, "success", FALSE)
        THEN "end"
        ELSE IF ~DictGet(DictGet(risk_result, "data", EmptyDict), "trade_approved", FALSE)
        THEN "end"
        ELSE "continue"

should_continue_after_risk(st) ==
    LET risk_result == st.risk_result
    IN  IF ~DictGet(risk_result, "success", FALSE)
        THEN "continue"
        ELSE IF ~DictGet(DictGet(risk_result, "data", EmptyDict), "trade_approved", FALSE)
        THEN "continue"
        ELSE "continue"

\* variant: the edge out of risk is wired past synthesis
RiskEdges_past_synthesis == [continue |-> "report", end |-> "end"]

\* add_conditional_edges("risk", should_continue_after_risk, {...})
RiskEdges == [continue |-> "synthesis", end |-> "end"]

(***************************************************************************)
(* Synthesis and report.                                                   *)
(***************************************************************************)
\* JSON mappings the synthesis reasoning call may return (confidence in percent)
SynthesisDecisions ==
    { [action |-> "BUY", confidence |-> 80, reasoning |-> [summary |-> <<"llm summary">>]],
      [action |-> "HOLD", confidence |-> 150],
      EmptyDict }

SynthesisCalls == {[kind |-> "ok", json |-> d] : d \in SynthesisDecisions}
                  \cup {[kind |-> "raised", msg |-> "timeout"],
                        [kind |-> "unparsable", msg |-> "JSONDecodeError"],
                        [kind |-> "not_mapping", msg |-> "AttributeError"]}

\* variant: the fallback decision is emitted without recording the error
synthesis_node_no_errors(st, call) ==
    IF call.kind = "ok"
    THEN [decision   |-> call.json,
          step_count |-> st.step_count + 1]
    ELSE [decision   |-> [action |-> "WAIT", confidence |-> 0,
                          reasoning |-> [summary |-> <<"Synthesis failed: ", call.msg>>,
                                         error |-> TRUE]],
          step_count |-> st.step_count + 1]

synthesis_node(st, call) ==
    IF call.kind = "ok"
    THEN [decision   |-> call.json,
          step_count |-> st.step_count + 1]
    ELSE [decision   |-> [action |-> "WAIT", confidence |-> 0,
                          reasoning |-> [summary |-> <<"Synthesis failed: ", call.msg>>,
                                         error |-> TRUE]],
          step_count |-> st.step_count + 1,
          errors     |-> DictSet(OrEmpty(st.errors), "synthesis", call.msg)]

route_after_synthesis(st) == "report"

SynthesisEdges == [report |-> "report"]

ReportCalls ==
    {[kind |-> "ok", result |-> [success |-> TRUE, agent |-> "ReportAgent",
                                 html |-> <<"<html>">>, metadata |-> [word_count |-> 1]]],
     [kind |-> "failed", result |-> [success |-> FALSE, agent |-> "ReportAgent",
                                     error |-> "provider error", html |-> None]],
     [kind |-> "raised", msg |-> "provider raised"]}

\* variant: the report stage also clears should_continue
report_node_stops_run(st, call) ==
    IF call.kind = "raised"
    THEN [report_result   |-> [success |-> FALSE, agent |-> "ReportAgent",
                               error |-> call.msg, html |-> None],
          step_count      |-> st.step_count + 1,
          should_continue |-> FALSE,
          errors          |-> DictSet(OrEmpty(st.errors), "report", call.msg)]
    ELSE [report_result   |-> call.result,
          step_count      |-> st.step_count + 1,
          should_continue |-> FALSE]

report_node(st, call) ==
    IF call.kind = "raised"
    THEN [report_result |-> [success |-> FALSE, agent |-> "ReportAgent",
                             error |-> call.msg, html |-> None],
          step_count    |-> st.step_count + 1,
          errors        |-> DictSet(OrEmpty(st.errors), "report", call.msg)]
    ELSE [report_result |-> call.result,
          step_count    |-> st.step_count + 1]

route_after_report(st) == "end"

ReportEdges == [end |-> "end"]

(***************************************************************************)
(* The streaming adapter (StreamingForexSystem.analyze_stream).  The graph *)
(* hands it, in the order they were written, the custom events of the      *)
(* nodes and a snapshot of the whole state after every step; it forwards   *)
(* the former and derives the latter's events by comparing each snapshot   *)
(* with the previous one.  ForexAgentSystem.analyze streams snapshots only *)
(* and yields no events.                                                   *)
(***************************************************************************)
\* an event the adapter builds itself; agent is "-" where the event names none,
\* stamped says that its data holds a timestamp
Event(type, agent) == [type |-> type, agent |-> agent, stamped |-> TRUE]

\* a custom event the adapter forwards: its data is the mapping the node or the
\* provider wrote, which holds no timestamp
Custom(type, agent) == [type |-> type, agent |-> agent, stamped |-> FALSE]

agent_start(a) == Custom("agent_start", a)

agent_progress(a) == Custom("agent_progress", a)

web_search(a) == Custom("web_search", a)

\* the providers that report their web search
Searching == {"news", "technical"}

\* what a provider call writes at one step: a progress event, after the search
\* results when the response carries them
provider_events(a, search) ==
    IF search THEN <<web_search(a), agent_progress(a)>> ELSE <<agent_progress(a)>>

\* the slot tests of analyze_stream, in the order the code makes them
Derived == << [slot |-> "query_context",      event |-> Event("query_parsed", "-")],
              [slot |-> "news_result",        event |-> Event("agent_update", "news")],
              [slot |-> "technical_result",   event |-> Event("agent_update", "technical")],
              [slot |-> "fundamental_result", event |-> Event("agent_update", "fundamental")],
              [slot |-> "risk_result",        event |-> Event("risk_update", "-")],
              [slot |-> "decision",           event |-> Event("decision", "-")],
              [slot |-> "report_result",      event |-> Event("report_update", "-")] >>

\* `state.get(slot) and not prev_state.get(slot)`
SlotAppeared(prev, st, slot) ==
    Truthy(StateGet(st, slot)) /\ ~Truthy(StateGet(prev, slot))

RECURSIVE derived_from(_, _, _)
derived_from(prev, st, i) ==
    IF i > Len(Derived) THEN <<>>
    ELSE (IF SlotAppeared(prev, st, Derived[i].slot) THEN <<Derived[i].event>> ELSE <<>>)
         \o derived_from(prev, st, i + 1)

\* the events one snapshot gives rise to
derived_events(prev, st) == derived_from(prev, st, 1)

\* most progress events the provider calls write while the parallel stage runs,
\* all branches together
MaxProgress == 1

\* most failing provider and reasoning calls in a run whose event stream is followed
MaxFailures == 1

\* queries of the runs whose event stream is followed
StreamQueries == { <<"g","o","l","d">> }

\* custom events the synthesis node writes before its reasoning call returns or raises
synthesis_events(call) ==
    IF IsSink(call) THEN <<>> ELSE
    <<agent_progress("synthesis"), agent_progress("synthesis"), agent_progress("synthesis")>>
    \o (IF call.kind = "raised" THEN <<>> ELSE <<agent_progress("synthesis")>>)

\* custom events the report node writes
report_events(call) ==
    IF IsSink(call) THEN <<>> ELSE
    <<agent_start("report"), agent_progress("report"), agent_progress("report")>>
    \o (IF call.kind = "raised" THEN <<>> ELSE <<agent_progress("report")>>)

(***************************************************************************)
(* The run.                                                                *)
(*   entry        entry point that built the inputs                        *)
(*   state        the graph state                                          *)
(*   node         the node about to run; "end" after the last edge,        *)
(*                "aborted" when an exception left a node function         *)
(*   failure      the node function that exception left ("none": none did) *)
(*   phase        coordinator position: idle, gather, fallback, done       *)
(*   results      per branch, what its coroutine handed back (None: not    *)
(*                finished)                                                *)
(*   gather_error the failure of the concurrent attempt (fallback only)    *)
(*   seq_state    the state the fallback carries from branch to branch     *)
(*   calls        per call site, the outcome of the last call made there   *)
(*   path         how the coordinator produced its update                  *)
(*   started      branches of the concurrent attempt inside their try      *)
(*   finished     branches of the concurrent attempt, as they completed     *)
(*   progress     per branch, progress events its provider call has written*)
(*   invoked      per branch, how many times its provider was invoked      *)
(*   executed     the node functions invoked so far, in order              *)
(*   observed     whether the event stream of the run is followed          *)
(*   faults       failing calls so far in a run whose stream is followed   *)
(*   events       what analyze_stream has yielded so far                   *)
(*   prev_state   analyze_stream's copy of the previous snapshot           *)
(* The remaining variables belong to the other specifications below.       *)
(***************************************************************************)
VARIABLES entry, state, node, failure, phase, results, gather_error, seq_state, calls, path,
          started, finished, progress, invoked, executed, observed, faults, events,
          prev_state, environ, _system, requests, trade, verdict, earlier, analysed, between,
          input, output, provider, cursor, written, outcome, _cache, _cache_timestamps,
          clock, delivered

workflow == <<entry, state, node, failure, phase, results, gather_error, seq_state, calls,
              path, started, finished, progress, invoked, executed, observed, faults, events,
              prev_state>>

config == <<environ, _system, requests>>

riskcheck == <<trade, verdict, earlier, analysed, between>>

pure == <<input, output>>

\* one provider call: the provider, the method it is in and the next write of
\* that method, the agent_progress events written, how the call ended
analysis == <<provider, cursor, written, outcome>>

\* one PriceService: its two tables, time.time() in whole seconds, and what the
\* last call handed back
prices == <<_cache, _cache_timestamps, clock, delivered>>

vars == <<workflow, observed, config, riskcheck, pure, analysis, prices>>

NoCall == [kind |-> "none"]

CallSites == {"query_parser", "news", "technical", "fundamental", "risk", "synthesis", "report"}

\* no request has reached the server
ConfigIdle ==
    /\ environ = EmptyDict
    /\ _system = FALSE
    /\ requests = <<>>

\* no trade is being validated
RiskIdle ==
    /\ trade = None
    /\ verdict = None
    /\ earlier = None
    /\ analysed = 0
    /\ between = FALSE

\* no function is applied on its own
PureIdle ==
    /\ input = None
    /\ output = None

\* no provider call is followed
AnalysisIdle ==
    /\ provider = "-"
    /\ cursor = [path |-> "-", next |-> 0]
    /\ written = <<>>
    /\ outcome = "-"

\* no price service is followed
PricesIdle ==
    /\ _cache = EmptyDict
    /\ _cache_timestamps = EmptyDict
    /\ clock = 0
    /\ delivered = None

\* the graph has been handed the inputs and no node has run
Start(e, q) ==
    /\ entry = e
    /\ state = inputs(e, q)
    /\ node = "query_parser"
    /\ failure = "none"
    /\ phase = "idle"
    /\ results = [b \in Branches |-> None]
    /\ gather_error = None
    /\ seq_state = None
    /\ calls = [c \in CallSites |-> NoCall]
    /\ path = "none"
    /\ started = {}
    /\ finished = <<>>
    /\ progress = [b \in Branches |-> 0]
    /\ invoked = [b \in Branches |-> 0]
    /\ executed = <<>>
    /\ faults = 0

\* runs from either entry point, with any number of failing calls; the event
\* stream, which no node reads, is not followed
Init ==
    /\ \E e \in EntryPoints, q \in Queries : Start(e, q)
    /\ observed = FALSE
    /\ events = <<>>
    /\ prev_state = EmptyDict
    /\ ConfigIdle
    /\ RiskIdle
    /\ PureIdle
    /\ AnalysisIdle
    /\ PricesIdle

\* runs of analyze_stream with their event stream: `start` has been yielded and
\* the snapshot of the inputs consumed
StreamInit ==
    /\ \E q \in StreamQueries : Start("analyze_stream", q)
    /\ observed = TRUE
    /\ events = <<Event("start", "-")>> \o derived_events(EmptyDict, state)
    /\ prev_state = state
    /\ ConfigIdle
    /\ RiskIdle
    /\ PureIdle
    /\ AnalysisIdle
    /\ PricesIdle

\* outcomes of a call that count as failures
Failing(call) == call.kind \in {"failed", "raised", "escaped", "unparsable", "not_mapping"}

\* a followed run has at most MaxFailures failures
Affordable(call) == Failing(call) => (~observed \/ faults < MaxFailures)

Charge(call) == faults' = IF observed /\ Failing(call) THEN faults + 1 ELSE faults

\* custom events written during a step reach the stream
Forward(custom) ==
    /\ events' = IF observed THEN events \o custom ELSE events
    /\ prev_state' = prev_state

\* variant: `complete` is yielded as soon as the last node is entered
Snapshot_complete_early(custom, st, next) ==
    IF observed
    THEN /\ events' = events \o (IF next = "end" THEN <<Event("complete", "-")>> ELSE <<>>)
                      \o custom \o derived_events(prev_state, st)
         /\ prev_state' = st
    ELSE UNCHANGED <<events, prev_state>>

\* a step ended: its custom events, then the events of the snapshot taken after
\* it, then `complete` when the graph has reached its end
Snapshot(custom, st, next) ==
    IF observed
    THEN /\ events' = events \o custom \o derived_events(prev_state, st)
                      \o (IF next = "end" THEN <<Event("complete", "-")>> ELSE <<>>)
         /\ prev_state' = st
    ELSE UNCHANGED <<events, prev_state>>

\* variant: an exception that left the graph ends the stream without an event
Raised_unreported(custom) ==
    /\ events' = IF observed THEN events \o custom ELSE events
    /\ prev_state' = prev_state

\* an exception left the graph: analyze_stream's except branch yields `error`
Raised(custom) ==
    /\ events' = IF observed
                 THEN events \o custom \o <<Event("error", "-")>>
                 ELSE events
    /\ prev_state' = prev_state

\* progress events written so far by the parallel stage
Written(p) == p["news"] + p["technical"] + p["fundamental"]

\* a sequential node ran: its exception aborts the run, its update is written
\* and the outgoing edge taken
Step(r, next, custom) ==
    /\ executed' = Append(executed, node)
    /\ IF IsException(r)
       THEN /\ node' = "aborted"
            /\ failure' = node
            /\ state' = state
            /\ Raised(custom)
       ELSE /\ state' = ApplyUpdate(state, r)
            /\ node' = next
            /\ failure' = failure
            /\ Snapshot(custom, ApplyUpdate(state, r), next)

QueryParser ==
    /\ node = "query_parser"
    /\ \E call \in ParserCalls :
          /\ Affordable(call)
          /\ Charge(call)
          /\ Step(query_parser_node(state, call), "parallel_analysis", <<>>)
          /\ calls' = [calls EXCEPT !["query_parser"] = call]
    /\ UNCHANGED <<finished, entry, phase, results, gather_error, seq_state, path,
                   started, progress, invoked, observed, config, riskcheck, pure, analysis, prices>>

\* asyncio.gather launches the three branch coroutines on the same state
ParallelStart ==
    /\ node = "parallel_analysis"
    /\ phase = "idle"
    /\ phase' = "gather"
    /\ executed' = Append(executed, node)
    /\ UNCHANGED <<finished, entry, failure, state, node, results, gather_error, seq_state, calls, path,
                   started, progress, invoked, events, prev_state, observed, faults, config, riskcheck, pure, analysis, prices>>

\* a branch coroutine enters its try block and writes agent_start
BranchStart(b) ==
    /\ node = "parallel_analysis"
    /\ phase = "gather"
    /\ IsNone(results[b])
    /\ b \notin started
    /\ started' = started \cup {b}
    /\ invoked' = [invoked EXCEPT ![b] = @ + 1]
    /\ Forward(<<agent_start(b)>>)
    /\ UNCHANGED <<finished, entry, failure, state, node, phase, results, gather_error, seq_state,
                   calls, path, progress, executed, observed, faults, config, riskcheck, pure, analysis, prices>>

\* A sink is attached only where the custom stream mode is requested, which
\* analyze_stream does.  To the state of the run a failure of the sink is an
\* exception inside a stage's try block, as the outcome "raised" of the
\* provider is; the two are told apart in the runs whose stream is followed.
SinkCalls == IF observed THEN {SinkRaised} ELSE {}

\* a branch coroutine enters its try block and the write of agent_start raises:
\* the except branch of the node returns the failure, the provider is not called
SinkFails(b) ==
    /\ node = "parallel_analysis"
    /\ phase = "gather"
    /\ IsNone(results[b])
    /\ b \notin started
    /\ \E call \in SinkCalls :
          /\ Affordable(call)
          /\ Charge(call)
          /\ results' = [results EXCEPT ![b] = branch_node(b, state, call)]
          /\ calls' = [calls EXCEPT ![b] = call]
    /\ started' = started \cup {b}
    /\ finished' = Append(finished, b)
    /\ UNCHANGED <<entry, failure, state, node, phase, gather_error, seq_state, path,
                   progress, invoked, executed, events, prev_state, observed, config,
                   riskcheck, pure, analysis, prices>>

\* the response of a provider's request has arrived and carries search results:
\* the request is made once, after the first progress events were written
MaySearch(b) ==
    /\ b \in Searching
    /\ progress[b] > 0
    /\ \A i \in DOMAIN events : events[i] # web_search(b)

\* variant: a provider call may write progress before agent_start was written
BranchProgress_unstarted(b) ==
    /\ node = "parallel_analysis"
    /\ phase = "gather"
    /\ IsNone(results[b])
    /\ Written(progress) < MaxProgress
    /\ progress' = [progress EXCEPT ![b] = @ + 1]
    /\ \E search \in {s \in BOOLEAN : s => MaySearch(b)} : Forward(provider_events(b, search))
    /\ UNCHANGED <<finished, entry, failure, state, node, phase, results, gather_error, seq_state,
                   calls, path, started, invoked, executed, observed, faults, config, riskcheck, pure, analysis, prices>>

\* its provider call writes a progress event
BranchProgress(b) ==
    /\ node = "parallel_analysis"
    /\ phase = "gather"
    /\ IsNone(results[b])
    /\ b \in started
    /\ Written(progress) < MaxProgress
    /\ progress' = [progress EXCEPT ![b] = @ + 1]
    /\ \E search \in {s \in BOOLEAN : s => MaySearch(b)} : Forward(provider_events(b, search))
    /\ UNCHANGED <<finished, entry, failure, state, node, phase, results, gather_error, seq_state,
                   calls, path, started, invoked, executed, observed, faults, config, riskcheck, pure, analysis, prices>>

\* one branch coroutine finishes; the order among branches is free.  An
\* exception raised before the try block ("escaped") leaves a branch that has
\* not started; every other outcome ends a provider call.
BranchRun(b) ==
    /\ node = "parallel_analysis"
    /\ phase = "gather"
    /\ IsNone(results[b])
    /\ \E call \in ProviderCalls(b) :
          /\ (call.kind = "escaped") <=> (b \notin started)
          /\ Affordable(call)
          /\ Charge(call)
          /\ results' = [results EXCEPT ![b] = branch_node(b, state, call)]
          /\ calls' = [calls EXCEPT ![b] = call]
    /\ finished' = Append(finished, b)
    /\ UNCHANGED <<entry, failure, state, node, phase, gather_error, seq_state, path,
                   started, progress, invoked, executed, events, prev_state, observed, config, riskcheck, pure, analysis, prices>>

\* the order in which gather is given the branch coroutines and returns their
\* results
Arguments == <<"news", "technical", "fundamental">>

Position(b) == CHOOSE i \in DOMAIN Arguments : Arguments[i] = b

\* variant: the results are unpacked in the order in which the branches completed
ParallelMerge_as_completed ==
    /\ node = "parallel_analysis"
    /\ phase = "gather"
    /\ \A b \in Branches : ~IsNone(results[b])
    /\ state' = ApplyUpdate(state, merge_results(state, [b \in Branches |-> results[finished[Position(b)]]]))
    /\ node' = "risk"
    /\ phase' = "done"
    /\ path' = "concurrent"
    /\ started' = {}
    /\ progress' = [b \in Branches |-> 0]
    /\ Snapshot(<<>>, state', "risk")
    /\ UNCHANGED <<finished, entry, failure, results, gather_error, seq_state, calls, invoked,
                   executed, observed, faults, config, riskcheck, pure, analysis, prices>>

\* all three finished: merge and hand the update to the graph
ParallelMerge ==
    /\ node = "parallel_analysis"
    /\ phase = "gather"
    /\ \A b \in Branches : ~IsNone(results[b])
    /\ state' = ApplyUpdate(state, merge_results(state, results))
    /\ node' = "risk"
    /\ phase' = "done"
    /\ path' = "concurrent"
    /\ started' = {}
    /\ progress' = [b \in Branches |-> 0]
    /\ Snapshot(<<>>, state', "risk")
    /\ UNCHANGED <<finished, entry, failure, results, gather_error, seq_state, calls, invoked,
                   executed, observed, faults, config, riskcheck, pure, analysis, prices>>

\* the concurrent attempt itself fails (outer except), either before a branch
\* coroutine has run or after all three have finished (the await returns only
\* then): what the branches produced is dropped and the sequential fallback
\* starts from the node's state
GatherFails ==
    /\ node = "parallel_analysis"
    /\ phase = "gather"
    /\ \/ \A b \in Branches : IsNone(results[b]) /\ b \notin started
       \/ \A b \in Branches : ~IsNone(results[b])
    /\ phase' = "fallback"
    /\ gather_error' = "gather failed"
    /\ results' = [b \in Branches |-> None]
    /\ seq_state' = state
    /\ started' = {}
    /\ finished' = <<>>
    /\ UNCHANGED <<entry, failure, state, node, calls, path, progress, invoked, executed,
                   events, prev_state, observed, faults, config, riskcheck, pure, analysis, prices>>

NextSequential ==
    IF IsNone(results["news"]) THEN "news"
    ELSE IF IsNone(results["technical"]) THEN "technical"
    ELSE "fundamental"

\* one await of the sequential fallback; the last one returns the update.
\* An exception leaving a branch here is re-raised by the coordinator.
Fallback(b) ==
    /\ node = "parallel_analysis"
    /\ phase = "fallback"
    /\ b = NextSequential
    /\ \E call \in ProviderCalls(b) \cup SinkCalls,
          n \in 0..(MaxProgress - Written(progress)), search \in BOOLEAN :
          LET r == branch_node(b, seq_state, call)
              custom == IF call.kind = "escaped" \/ IsSink(call) THEN <<>>
                        ELSE <<agent_start(b)>>
                             \o (IF n = 0 THEN <<>> ELSE <<agent_progress(b)>>)
                             \o (IF n < 2 THEN <<>> ELSE provider_events(b, search))
                             \o [i \in 1..(n - 2) |-> agent_progress(b)]
          IN  /\ search => (n > 1 /\ b \in Searching)
              /\ IsSink(call) => n = 0
              /\ Affordable(call)
              /\ Charge(call)
              /\ calls' = [calls EXCEPT ![b] = call]
              /\ invoked' = [invoked EXCEPT ![b] = IF call.kind = "escaped" \/ IsSink(call)
                                                      THEN @ ELSE @ + 1]
              /\ IF IsException(r)
                 THEN /\ n = 0
                      /\ node' = "aborted"
                      /\ failure' = node
                      /\ Raised(custom)
                      /\ UNCHANGED <<state, phase, results, seq_state, path, progress>>
                 ELSE /\ results' = [results EXCEPT ![b] = r]
                      /\ failure' = failure
                      /\ IF b = "fundamental"
                         THEN /\ state' = ApplyUpdate(state,
                                            sequential_return(state, results["news"],
                                                              results["technical"], r,
                                                              gather_error))
                              /\ node' = "risk"
                              /\ phase' = "done"
                              /\ path' = "fallback"
                              /\ seq_state' = seq_state
                              /\ progress' = [x \in Branches |-> 0]
                              /\ Snapshot(custom, state', "risk")
                         ELSE /\ seq_state' = DictMerge(seq_state, r)
                              /\ progress' = [progress EXCEPT ![b] = @ + n]
                              /\ Forward(custom)
                              /\ UNCHANGED <<state, node, phase, path>>
    /\ UNCHANGED <<finished, entry, gather_error, started, executed, observed, config, riskcheck, pure, analysis, prices>>

Risk ==
    /\ node = "risk"
    /\ \E call \in (IF RiskInvoked(state) THEN RiskCalls ELSE {NoCall}) :
          /\ Affordable(call)
          /\ Charge(call)
          /\ state' = ApplyUpdate(state, risk_node(state, call))
          /\ node' = RiskEdges[should_continue_after_risk(state')]
          /\ calls' = [calls EXCEPT !["risk"] = call]
    /\ executed' = Append(executed, node)
    /\ Snapshot(<<>>, state', node')
    /\ finished' = <<>>
    /\ UNCHANGED <<entry, failure, phase, results, gather_error, seq_state, path,
                   started, progress, invoked, observed, config, riskcheck, pure, analysis, prices>>

Synthesis ==
    /\ node = "synthesis"
    /\ \E call \in SynthesisCalls \cup SinkCalls :
          /\ Affordable(call)
          /\ Charge(call)
          /\ state' = ApplyUpdate(state, synthesis_node(state, call))
          /\ node' = SynthesisEdges[route_after_synthesis(state')]
          /\ calls' = [calls EXCEPT !["synthesis"] = call]
          /\ Snapshot(synthesis_events(call), state', node')
    /\ executed' = Append(executed, node)
    /\ UNCHANGED <<finished, entry, failure, phase, results, gather_error, seq_state, path,
                   started, progress, invoked, observed, config, riskcheck, pure, analysis, prices>>

Report ==
    /\ node = "report"
    /\ \E call \in ReportCalls \cup SinkCalls :
          /\ Affordable(call)
          /\ Charge(call)
          /\ state' = ApplyUpdate(state, report_node(state, call))
          /\ node' = ReportEdges[route_after_report(state')]
          /\ calls' = [calls EXCEPT !["report"] = call]
          /\ Snapshot(report_events(call), state', node')
    /\ executed' = Append(executed, node)
    /\ UNCHANGED <<finished, entry, failure, phase, results, gather_error, seq_state, path,
                   started, progress, invoked, observed, config, riskcheck, pure, analysis, prices>>

Next ==
    \/ QueryParser
    \/ ParallelStart
    \/ \E b \in Branches : BranchStart(b)
    \/ \E b \in Branches : BranchProgress(b)
    \/ \E b \in Branches : BranchRun(b)
    \/ ParallelMerge
    \/ GatherFails
    \/ \E b \in Branches : Fallback(b)
    \/ Risk
    \/ Synthesis
    \/ Report

Spec == Init /\ [][Next]_vars

\* the runs of analyze_stream, whose progress sink may fail
StreamNext ==
    \/ Next
    \/ \E b \in Branches : SinkFails(b)

StreamSpec == StreamInit /\ [][StreamNext]_vars

(***************************************************************************)
(* Account settings.  The server builds a system per request that names    *)
(* settings of its own and uses one shared system otherwise; a system's    *)
(* constructor writes the settings into the process environment, and the   *)
(* risk stage of a run reads them from there when it runs.                  *)
(*   environ   os.environ (the two account keys)                           *)
(*   _system   whether the server's shared system has been built           *)
(*   requests  per request: the settings it was submitted with, where its  *)
(*             run is, and the settings its risk stage used                *)
(***************************************************************************)
\* no workflow run is followed
NoRun ==
    /\ entry = "none"
    /\ state = EmptyDict
    /\ node = "none"
    /\ failure = "none"
    /\ phase = "idle"
    /\ results = [b \in Branches |-> None]
    /\ gather_error = None
    /\ seq_state = None
    /\ calls = [c \in CallSites |-> NoCall]
    /\ path = "none"
    /\ started = {}
    /\ finished = <<>>
    /\ progress = [b \in Branches |-> 0]
    /\ invoked = [b \in Branches |-> 0]
    /\ executed = <<>>
    /\ faults = 0
    /\ observed = FALSE
    /\ events = <<>>
    /\ prev_state = EmptyDict

\* requests the server receives
MaxRequests == 2

\* str(x) of the floats used as settings: balances in USD, risk in hundredths
FloatRepr == [ACCOUNT_BALANCE    |-> {<<5000, "5000.0">>, <<10000, "10000.0">>, <<50000, "50000.0">>},
              MAX_RISK_PER_TRADE |-> {<<1, "0.01">>, <<2, "0.02">>, <<5, "0.05">>}]

\* str(x)
str(key, x) == (CHOOSE p \in FloatRepr[key] : p[1] = x)[2]

\* float(s)
float(key, s) == (CHOOSE p \in FloatRepr[key] : p[2] = s)[1]

\* the defaults written into the code: "10000.0" and "0.02"
DefaultSetting == [ACCOUNT_BALANCE |-> "10000.0", MAX_RISK_PER_TRADE |-> "0.02"]

\* what a request may name: nothing (Absent) or a value of its own
Absent == 0

Offered == [ACCOUNT_BALANCE |-> {Absent, 5000, 50000}, MAX_RISK_PER_TRADE |-> {Absent, 1, 5}]

\* one key of ForexAgentSystem.__init__: a given value is written, a missing
\* one leaves the environment alone unless the key is not set at all
init_key(env, key, given) ==
    IF given # Absent THEN DictSet(env, key, str(key, given))
    ELSE IF key \notin DOMAIN env THEN DictSet(env, key, DefaultSetting[key])
    ELSE env

\* ForexAgentSystem.__init__ as far as the environment goes
system_init(env, account_balance, max_risk_per_trade) ==
    init_key(init_key(env, "ACCOUNT_BALANCE", account_balance),
             "MAX_RISK_PER_TRADE", max_risk_per_trade)

\* `os.getenv(key, default)` as risk_node reads it
getenv(env, key) == float(key, DictGet(env, key, DefaultSetting[key]))

ConfigInit ==
    /\ NoRun
    /\ AnalysisIdle
    /\ PricesIdle
    /\ RiskIdle
    /\ PureIdle
    /\ environ = EmptyDict
    /\ _system = FALSE
    /\ requests = <<>>

\* a request arrives: the endpoint picks or builds its system and starts the run
Submit(account_balance, max_risk_per_trade) ==
    /\ Len(requests) < MaxRequests
    /\ IF account_balance # Absent \/ max_risk_per_trade # Absent
       THEN /\ environ' = system_init(environ, account_balance, max_risk_per_trade)
            /\ _system' = _system
       ELSE /\ environ' = IF _system THEN environ ELSE system_init(environ, Absent, Absent)
            /\ _system' = TRUE
    /\ requests' = Append(requests, [account_balance |-> account_balance,
                                      max_risk_per_trade |-> max_risk_per_trade,
                                      stage |-> "running",
                                      used |-> None])
    /\ UNCHANGED <<workflow, riskcheck, pure, analysis, prices>>

\* the run of request i reaches its risk stage, which builds its RiskAgent from
\* what the environment holds at that moment
RiskStage(i) ==
    /\ i \in 1..Len(requests)
    /\ requests[i].stage = "running"
    /\ requests' = [requests EXCEPT ![i].stage = "done",
                                    ![i].used = [account_balance |-> getenv(environ, "ACCOUNT_BALANCE"),
                                                 max_risk_per_trade |-> getenv(environ, "MAX_RISK_PER_TRADE")]]
    /\ UNCHANGED <<workflow, riskcheck, pure, analysis, prices, environ, _system>>

ConfigNext ==
    \/ \E a \in Offered["ACCOUNT_BALANCE"], r \in Offered["MAX_RISK_PER_TRADE"] : Submit(a, r)
    \/ \E i \in 1..MaxRequests : RiskStage(i)

ConfigSpec == ConfigInit /\ [][ConfigNext]_vars

(***************************************************************************)
(* Python floats.  The risk arithmetic is done in IEEE-754 doubles, and    *)
(* the model computes it as the machine does.  A natural number of any     *)
(* size is a sequence of limbs in 0..Limb-1, lowest first, << >> being     *)
(* zero; a double is [m |-> limbs, e |-> Int], the value m * 2^e, with at  *)
(* most Precision bits in m.  Only finite, non-negative, normal values     *)
(* occur.                                                                  *)
(***************************************************************************)
\* bits of a limb, and the limb base
LimbBits == 15

Limb == 2 ^ LimbBits

\* bits in the significand of a double
Precision == 53

\* limbs a dividend is extended by before a float division
GuardLimbs == 8

Min2(a, b) == IF a <= b THEN a ELSE b

LimbAt(a, i) == IF i \in 1..Len(a) THEN a[i] ELSE 0

\* without leading zero limbs
Trim(a) ==
    LET used == {i \in 1..Len(a) : a[i] # 0}
    IN  IF used = {} THEN << >>
        ELSE SubSeq(a, 1, CHOOSE i \in used : \A j \in used : j <= i)

\* the limbs of an integer below Limb^3
Big(n) == Trim(<<n % Limb, (n \div Limb) % Limb, n \div (Limb * Limb)>>)

\* a + b
BigAdd(a, b) ==
    LET n == Max2(Len(a), Len(b))
        carry[i \in 0..n] ==
            IF i = 0 THEN 0 ELSE (LimbAt(a, i) + LimbAt(b, i) + carry[i - 1]) \div Limb
    IN  Trim([i \in 1..(n + 1) |->
                IF i <= n THEN (LimbAt(a, i) + LimbAt(b, i) + carry[i - 1]) % Limb
                ELSE carry[n]])

\* a - b, for a >= b
BigSub(a, b) ==
    LET n == Len(a)
        borrow[i \in 0..n] ==
            IF i = 0 THEN 0
            ELSE IF LimbAt(a, i) - LimbAt(b, i) - borrow[i - 1] < 0 THEN 1 ELSE 0
    IN  Trim([i \in 1..n |-> (LimbAt(a, i) - LimbAt(b, i) - borrow[i - 1] + Limb) % Limb])

\* a < b
BigLess(a, b) ==
    \/ Len(a) < Len(b)
    \/ /\ Len(a) = Len(b)
       /\ \E i \in 1..Len(a) :
            /\ a[i] < b[i]
            /\ \A j \in (i + 1)..Len(a) : a[j] = b[j]

\* a * Limb^k
ShiftLimbs(a, k) == IF a = << >> THEN << >> ELSE [i \in 1..k |-> 0] \o a

\* a * d, for 0 <= d <= Limb
BigMulSmall(a, d) ==
    LET n == Len(a)
        carry[i \in 0..n] ==
            IF i = 0 THEN 0 ELSE (a[i] * d + carry[i - 1]) \div Limb
    IN  Trim([i \in 1..(n + 1) |->
                IF i <= n THEN (a[i] * d + carry[i - 1]) % Limb ELSE carry[n]])

\* a div d and a mod d, for 0 < d <= Limb
BigDivSmall(a, d) ==
    LET n == Len(a)
        rem[i \in 1..(n + 1)] ==
            IF i = n + 1 THEN 0 ELSE (rem[i + 1] * Limb + a[i]) % d
    IN  [q |-> Trim([i \in 1..n |-> (rem[i + 1] * Limb + a[i]) \div d]),
         r |-> rem[1]]

RECURSIVE BigMulFrom(_, _, _)
BigMulFrom(a, b, i) ==
    IF i > Len(b) THEN << >>
    ELSE BigAdd(ShiftLimbs(BigMulSmall(a, b[i]), i - 1), BigMulFrom(a, b, i + 1))

\* a * b
BigMul(a, b) == BigMulFrom(a, b, 1)

\* bits of a limb value v > 0
WidthOf(v) == CHOOSE k \in 1..LimbBits : 2 ^ (k - 1) <= v /\ v < 2 ^ k

\* bits of a
BitLen(a) == IF a = << >> THEN 0 ELSE LimbBits * (Len(a) - 1) + WidthOf(a[Len(a)])

\* a * 2^k
ShiftLeft(a, k) == ShiftLimbs(BigMulSmall(a, 2 ^ (k % LimbBits)), k \div LimbBits)

\* a div 2^k
ShiftRight(a, k) ==
    IF k \div LimbBits >= Len(a) THEN << >>
    ELSE BigDivSmall(SubSeq(a, k \div LimbBits + 1, Len(a)), 2 ^ (k % LimbBits)).q

\* the limb q with q * d <= r < (q + 1) * d, for r < d * Limb and the top limb
\* of d at least Limb / 2: at most two below the estimate from the top limbs
QuotientLimb(r, d) ==
    LET n     == Len(d)
        guess == Min2(Limb - 1, (LimbAt(r, n + 1) * Limb + LimbAt(r, n)) \div d[n])
        fits  == {c \in Max2(0, guess - 2)..guess : ~BigLess(r, BigMulSmall(d, c))}
    IN  CHOOSE c \in fits : \A c2 \in fits : c2 <= c

\* one step of long division: the next limb is brought down to the remainder
DivStep(prev, limb, d) ==
    LET r == Trim(<<limb>> \o prev.r)
        c == QuotientLimb(r, d)
    IN  [q |-> Trim(<<c>> \o prev.q), r |-> BigSub(r, BigMulSmall(d, c))]

RECURSIVE BigDivFrom(_, _, _)
\* long division of the limbs of a from the highest down to the i-th
BigDivFrom(a, d, i) ==
    IF i > Len(a) THEN [q |-> << >>, r |-> << >>]
    ELSE CHOOSE qr \in {DivStep(prev, a[i], d) : prev \in {BigDivFrom(a, d, i + 1)}} : TRUE

\* a div d and a mod d, for d > 0: both are scaled so that the top limb of the
\* divisor is at least Limb / 2
BigDivMod(a, d) ==
    LET s  == 2 ^ (LimbBits - WidthOf(d[Len(d)]))
        qr == BigDivFrom(BigMulSmall(a, s), BigMulSmall(d, s), 1)
    IN  [q |-> qr.q, r |-> BigDivSmall(qr.r, s).q]

\* the double nearest to n * 2^e, plus a fraction below one unit of n that is
\* zero or not (sticky); ties go to the even significand
RoundToDouble(n, e, sticky) ==
    IF BitLen(n) <= Precision THEN [m |-> n, e |-> e]
    ELSE LET drop == BitLen(n) - Precision
             q    == ShiftRight(n, drop)
             low  == BigSub(n, ShiftLeft(q, drop))
             half == ShiftLeft(<<1>>, drop - 1)
             up   == \/ BigLess(half, low)
                     \/ low = half /\ (sticky \/ q[1] % 2 = 1)
         IN  [m |-> IF up THEN BigAdd(q, <<1>>) ELSE q, e |-> e + drop]

\* float("d.dddd"): the double nearest to n / 10^k
FloatOf(n, k) ==
    LET qr == BigDivSmall(ShiftLimbs(Big(n), GuardLimbs), 10 ^ k)
    IN  RoundToDouble(qr.q, 0 - GuardLimbs * LimbBits, qr.r # 0)

\* both significands over the smaller exponent
Aligned(x, y) ==
    LET e == IF x.m = << >> THEN y.e ELSE IF y.m = << >> THEN x.e ELSE Min2(x.e, y.e)
    IN  [x |-> ShiftLeft(x.m, Max2(0, x.e - e)), y |-> ShiftLeft(y.m, Max2(0, y.e - e)), e |-> e]

\* x < y
FloatLess(x, y) == LET al == Aligned(x, y) IN BigLess(al.x, al.y)

\* abs(x - y)
FloatAbsDiff(x, y) ==
    LET al == Aligned(x, y)
    IN  IF BigLess(al.x, al.y) THEN RoundToDouble(BigSub(al.y, al.x), al.e, FALSE)
        ELSE RoundToDouble(BigSub(al.x, al.y), al.e, FALSE)

\* x * y
FloatMul(x, y) == RoundToDouble(BigMul(x.m, y.m), x.e + y.e, FALSE)

\* x / y, for y > 0
FloatDiv(x, y) ==
    LET qr == BigDivMod(ShiftLimbs(x.m, GuardLimbs), y.m)
    IN  RoundToDouble(qr.q, x.e - y.e - GuardLimbs * LimbBits, qr.r # << >>)

(***************************************************************************)
(* The rule-based risk check of RiskAgent.  Prices are float literals of   *)
(* Decimals decimals, written as their digits: 10850 is 1.0850.            *)
(*   trade    the trade handed to the check                                *)
(*   verdict  what the check returned, None before it ran                  *)
(***************************************************************************)
\* decimals of a price
Decimals == 4

\* pip_multiplier
pip_multiplier == 10000

Price(n) == FloatOf(n, Decimals)

\* RiskAgent._calculate_pips
\* variant: the distance is counted in the direction of the trade, and a price
\* on the other side of the entry counts as no distance
_calculate_pips_directed(entry_price, exit, direction, reward) ==
    FloatMul(IF (direction = "BUY") = reward
             THEN IF FloatLess(exit, entry_price) THEN FloatOf(0, 0)
                  ELSE FloatAbsDiff(exit, entry_price)
             ELSE IF FloatLess(entry_price, exit) THEN FloatOf(0, 0)
                  ELSE FloatAbsDiff(entry_price, exit),
             FloatOf(pip_multiplier, 0))

_calculate_pips(entry_price, exit, direction, reward) ==
    FloatMul(IF (direction = "BUY") = reward
             THEN FloatAbsDiff(exit, entry_price)
             ELSE FloatAbsDiff(entry_price, exit),
             FloatOf(pip_multiplier, 0))

\* a risk/reward ratio that was not computed
NoRatio == [given |-> FALSE, value |-> FloatOf(0, 0)]

\* RiskAgent._validate_trade: the rules in the order the code tries them
_validate_trade(risk_in_pips, risk_reward_ratio) ==
    IF ~FloatLess(FloatOf(0, 0), risk_in_pips)
    THEN [trade_approved |-> FALSE, rejection_reason |-> "Invalid stop loss"]
    ELSE IF FloatLess(FloatOf(100, 0), risk_in_pips)
    THEN [trade_approved |-> FALSE, rejection_reason |-> "Risk too high"]
    ELSE IF risk_reward_ratio.given /\ FloatLess(risk_reward_ratio.value, FloatOf(15, 1))
    THEN [trade_approved |-> FALSE, rejection_reason |-> "Poor risk/reward ratio"]
    ELSE IF FloatLess(risk_in_pips, FloatOf(10, 0))
    THEN [trade_approved |-> FALSE, rejection_reason |-> "Risk too small"]
    ELSE [trade_approved |-> TRUE, rejection_reason |-> "-"]

\* the integer a has, for a below Limb^2
ToInt(a) == LimbAt(a, 1) + LimbAt(a, 2) * Limb

\* round(x, n): the decimal of n places nearest to the float's exact value, ties
\* to the even digit, written as its digits (1333 is 13.33 for n = 2)
round(x, n) ==
    LET scaled == BigMulSmall(x.m, 10 ^ n)
        q      == ShiftRight(scaled, 0 - x.e)
        low    == BigSub(scaled, ShiftLeft(q, 0 - x.e))
        half   == ShiftLeft(<<1>>, 0 - x.e - 1)
        up     == \/ BigLess(half, low)
                  \/ low = half /\ LimbAt(q, 1) % 2 = 1
    IN  IF x.e >= 0 THEN ToInt(ShiftLeft(scaled, x.e))
        ELSE ToInt(IF up THEN BigAdd(q, <<1>>) ELSE q)

\* pip_value_per_standard_lot, in USD
pip_value_per_standard_lot == 10

\* variant: the balance the object holds shrinks with every trade it has checked
Balance_drawn_down(t) == FloatOf(t.account_balance \div (analysed + 1), 0)

\* the account settings of a trade as the floats RiskAgent holds: the balance
\* in USD, the risk fraction in hundredths
Balance(t) == FloatOf(t.account_balance, 0)

RiskFraction(t) == FloatOf(t.max_risk_per_trade, 2)

\* variant: the pip value is left out of the position size
_calculate_position_size_per_pip(t, risk_in_pips) ==
    IF ~FloatLess(FloatOf(0, 0), risk_in_pips) THEN FloatOf(0, 0)
    ELSE FloatDiv(FloatMul(Balance(t), RiskFraction(t)), risk_in_pips)

\* RiskAgent._calculate_position_size
_calculate_position_size(t, risk_in_pips) ==
    IF ~FloatLess(FloatOf(0, 0), risk_in_pips) THEN FloatOf(0, 0)
    ELSE FloatDiv(FloatMul(Balance(t), RiskFraction(t)),
                  FloatMul(risk_in_pips, FloatOf(pip_value_per_standard_lot, 0)))

\* the result of _calculate_risk_params, built from the values it computed;
\* reward_per_risk is reward_in_pips / risk_in_pips, or zero when no pips are at
\* risk.  risk_in_pips and risk_reward_ratio are the floats handed to
\* _validate_trade; data holds the rounded values of the result, as digits.
risk_result(t, risk_in_pips, reward_in_pips, position_size, dollar_risk, reward_per_risk) ==
    CHOOSE result \in
        {[risk_in_pips      |-> risk_in_pips,
          risk_reward_ratio |-> risk_reward_ratio,
          trade_approved    |-> checked.trade_approved,
          rejection_reason  |-> checked.rejection_reason,
          data |-> [risk_in_pips      |-> round(risk_in_pips, 1),
                    position_size     |-> round(position_size, 2),
                    dollar_risk       |-> round(dollar_risk, 2),
                    reward_given      |-> t.take_profit # Absent,
                    reward_in_pips    |-> IF t.take_profit = Absent THEN 0
                                          ELSE round(reward_in_pips, 1),
                    risk_reward_ratio |-> IF t.take_profit = Absent THEN 0
                                          ELSE round(reward_per_risk, 2),
                    potential_profit  |-> IF t.take_profit = Absent THEN 0
                                          ELSE round(FloatMul(reward_per_risk, dollar_risk), 2)]] :
            risk_reward_ratio \in {IF t.take_profit = Absent THEN NoRatio
                                   ELSE [given |-> TRUE, value |-> reward_per_risk]},
            checked \in {_validate_trade(risk_in_pips,
                                         IF t.take_profit = Absent THEN NoRatio
                                         ELSE [given |-> TRUE, value |-> reward_per_risk])}} : TRUE

\* the values that depend on the two distances in pips
risk_values(t, risk_in_pips, reward_in_pips) ==
    CHOOSE result \in
        {risk_result(t, risk_in_pips, reward_in_pips, position_size, dollar_risk, reward_per_risk) :
            position_size \in {_calculate_position_size(t, risk_in_pips)},
            dollar_risk \in {FloatMul(Balance(t), RiskFraction(t))},
            reward_per_risk \in {IF FloatLess(FloatOf(0, 0), risk_in_pips)
                                 THEN FloatDiv(reward_in_pips, risk_in_pips)
                                 ELSE FloatOf(0, 0)}} : TRUE

\* RiskAgent._calculate_risk_params: a take profit that is missing or zero
\* gives no ratio and no reward data.  Every value is computed once and named,
\* as the code names it.
_calculate_risk_params(t) ==
    CHOOSE result \in
        {risk_values(t, risk_in_pips, reward_in_pips) :
            risk_in_pips \in {_calculate_pips(Price(t.entry_price), Price(t.stop_loss),
                                              t.direction, FALSE)},
            reward_in_pips \in {_calculate_pips(Price(t.entry_price), Price(t.take_profit),
                                                t.direction, TRUE)}} : TRUE

\* entry prices, and the distances of stop loss and take profit from the entry,
\* in pips
EntryPrices == {9950, 10850, 12000}

StopDistances == {0, 5, 10, 32, 50, 100, 150}

ProfitDistances == {Absent, 5, 75, 100}

\* the account settings the check is built with
Accounts == {[account_balance |-> 10000, max_risk_per_trade |-> 2],
             [account_balance |-> 5000, max_risk_per_trade |-> 1]}

\* the trades the check is given: the stop lies against the direction, the
\* take profit with it
Trades ==
    {[entry_price |-> p,
      stop_loss   |-> IF d = "BUY" THEN p - s ELSE p + s,
      take_profit |-> IF g = Absent THEN Absent ELSE IF d = "BUY" THEN p + g ELSE p - g,
      direction   |-> d,
      account_balance    |-> a.account_balance,
      max_risk_per_trade |-> a.max_risk_per_trade] :
        p \in EntryPrices, s \in StopDistances, g \in ProfitDistances, d \in {"BUY", "SELL"},
        a \in Accounts}

\* most calls one RiskAgent object receives
MaxCalls == 3

\* another trade the same object is asked about between two calls
OtherTrade(t) ==
    [t EXCEPT !.stop_loss = IF t.direction = "BUY" THEN t.entry_price + 20 ELSE t.entry_price - 20,
              !.direction = IF t.direction = "BUY" THEN "SELL" ELSE "BUY",
              !.take_profit = Absent]

\* the same prices traded in the other direction
Reversed(t) == [t EXCEPT !.direction = IF t.direction = "BUY" THEN "SELL" ELSE "BUY"]

\* a RiskAgent object is built and given its first trade
RiskInit ==
    /\ NoRun
    /\ AnalysisIdle
    /\ PricesIdle
    /\ ConfigIdle
    /\ PureIdle
    /\ trade \in Trades
    /\ verdict = None
    /\ earlier = None
    /\ analysed = 0
    /\ between = FALSE

\* RiskAgent.analyze without market context: the rule-based result is returned
RiskAnalyze ==
    /\ IsNone(verdict)
    /\ verdict' = _calculate_risk_params(trade)
    /\ analysed' = analysed + 1
    /\ earlier' = IF IsNone(earlier) THEN [trade |-> trade, verdict |-> verdict'] ELSE earlier
    /\ UNCHANGED <<workflow, config, pure, analysis, prices, trade, between>>

\* the same object is called again: with the first trade, with another one, or
\* with the prices of the first in the other direction
RiskAgain ==
    /\ ~IsNone(verdict)
    /\ analysed < MaxCalls
    /\ \E t \in {earlier.trade, OtherTrade(earlier.trade), Reversed(earlier.trade)} :
          /\ trade' = t
          /\ between' = (between \/ t # earlier.trade)
    /\ verdict' = None
    /\ UNCHANGED <<workflow, config, pure, analysis, prices, earlier, analysed>>

RiskNext == RiskAnalyze \/ RiskAgain

RiskSpec == RiskInit /\ [][RiskNext]_vars

(***************************************************************************)
(* The fallback parser on its own.                                         *)
(*   input   the query string handed to _fallback_parse                    *)
(*   output  the pair it returned, None before the call                    *)
(***************************************************************************)
\* words the queries are made of: alias keywords in either case, pairs in the
\* two written forms, and words that are neither
Words == { <<"g", "o", "l", "d">>,
           <<"G", "O", "L", "D">>,
           <<"s", "i", "l", "v", "e", "r">>,
           <<"b", "i", "t", "c", "o", "i", "n">>,
           <<"o", "i", "l">>,
           <<"E", "U", "R", "U", "S", "D">>,
           <<"g", "b", "p", "/", "j", "p", "y">>,
           <<"E", "U", "R", "/", "U", "S", "D">>,
           <<"b", "u", "y">>,
           <<"h", "i">>,
           <<"o", "k">> }

\* the queries handed to the fallback parser: one word, two words, and the
\* sentences of the documented scenarios
ParseQueries ==
    Words
        \cup {w1 \o <<" ">> \o w2 : w1 \in Words, w2 \in Words}
        \cup {<<"A", "n", "a", "l", "y", "z", "e", " ", "g", "o", "l", "d", " ", "t", "r", "a", "d", "i", "n", "g">>,
              <<"S", "h", "o", "u", "l", "d", " ", "I", " ", "b", "u", "y", " ", "G", "B", "P", "/", "U", "S", "D", "?">>}

ParseInit ==
    /\ NoRun
    /\ AnalysisIdle
    /\ PricesIdle
    /\ ConfigIdle
    /\ RiskIdle
    /\ input \in ParseQueries
    /\ output = None

\* the parser is called with the query
FallbackParse ==
    /\ IsNone(output)
    /\ output' = Str(_fallback_parse(input))
    /\ UNCHANGED <<workflow, config, riskcheck, analysis, prices, input>>

ParseNext == FallbackParse

ParseSpec == ParseInit /\ [][ParseNext]_vars

(***************************************************************************)
(* The social media formatter (src/utils/social_formatter.py).  Text is a  *)
(* sequence of characters as the source file holds them; a character       *)
(* outside ASCII is named by its code point.  The values of a result are   *)
(* boxed: Str(chars) is a string, Num(n) a number in ten-thousandths, None *)
(* is None, and a mapping is a function from its keys.                     *)
(***************************************************************************)
Num(n) == [num |-> n]

\* isinstance(x, dict)
IsDict(x) == (DOMAIN x) \cap {"str", "num", "none"} = {}

DigitChars == <<"0", "1", "2", "3", "4", "5", "6", "7", "8", "9">>

RECURSIVE IntegerDigits(_)
IntegerDigits(n) ==
    IF n < 10 THEN <<DigitChars[n + 1]>>
    ELSE IntegerDigits(n \div 10) \o <<DigitChars[(n % 10) + 1]>>

\* the digits after the point: trailing zeros are dropped, one digit stays
FractionDigits(f) ==
    LET digits == [i \in 1..Decimals |-> (f \div (10 ^ (Decimals - i))) % 10]
        nonzero == {i \in 1..Decimals : digits[i] # 0}
        kept == IF nonzero = {} THEN 1 ELSE CHOOSE i \in nonzero : \A j \in nonzero : j <= i
    IN  [i \in 1..kept |-> DigitChars[digits[i] + 1]]

\* f"{v}": str of a string, of None and of a float (its shortest decimal)
Format(v) ==
    IF IsNone(v) THEN <<"N", "o", "n", "e">>
    ELSE IF "num" \in DOMAIN v
    THEN IntegerDigits(v.num \div (10 ^ Decimals)) \o <<".">> \o FractionDigits(v.num % (10 ^ Decimals))
    ELSE v.str

\* s[:k]
Slice(s, k) ==
    IF k >= 0 THEN SubSeq(s, 1, Min2(k, Len(s)))
    ELSE SubSeq(s, 1, Max2(Len(s) + k, 0))

\* s[:n] + "..." if len(s) > n else s
Snippet(s, n) == IF Len(s) > n THEN SubSeq(s, 1, n) \o <<".", ".", ".">> ELSE s

\* " ".join(tags[i:])
RECURSIVE Join(_, _)
Join(tags, i) ==
    IF i > Len(tags) THEN <<>>
    ELSE (IF i > 1 THEN <<" ">> ELSE <<>>) \o tags[i] \o Join(tags, i + 1)

\* pair.replace('/', '')
WithoutSlash(s) == SelectSeq(s, LAMBDA c : c # "/")

NotAvailable == Str(<<"N", "/", "A">>)

BUY == Str(<<"B", "U", "Y">>)

SELL == Str(<<"S", "E", "L", "L">>)

WAIT == Str(<<"W", "A", "I", "T">>)

\* the emoji and labels of the posts, as the characters of the source file
buy_emoji == <<"U+F8FF", "U+00FC", "U+00FC", "U+00A2">>

sell_emoji == <<"U+F8FF", "U+00FC", "U+00EE", "U+00A5">>

chart_emoji == <<"U+F8FF", "U+00FC", "U+00EC", "U+00E4">>

target_label ==
    <<"U+F8FF", "U+00FC", "U+00E9", "U+00D8", " ", "T", "a", "r", "g", "e", "t", ":", " ">>

stop_label ==
    <<" ", "|", " ", "U+F8FF", "U+00FC", "U+00F5", "U+00B0", "U+00D4", "U+220F", "U+00E8", " ",
      "S", "t", "o", "p", ":", " ">>

disclaimer ==
    <<"\n", "U+201A", "U+00F6", "U+2020", "U+00D4", "U+220F", "U+00E8", " ",
      "N", "F", "A", " ", "|", " ", "D", "Y", "O", "R">>

market_analysis ==
    <<" ", "M", "a", "r", "k", "e", "t", " ", "A", "n", "a", "l", "y", "s", "i", "s", "\n", "\n">>

\* the decision, action and trade parameters as both functions read them
decision_of(result) == DictGet(result, "decision", EmptyDict)

action_of(decision_data) ==
    IF IsDict(decision_data) THEN DictGet(decision_data, "action", WAIT) ELSE decision_data

trade_params_of(decision_data) ==
    IF IsDict(decision_data) THEN DictGet(decision_data, "trade_parameters", EmptyDict)
    ELSE EmptyDict

\* format_for_twitter; custom_hashtags is None or [list |-> tags]
format_for_twitter(result, include_trade_params, custom_hashtags) ==
    LET decision_data == decision_of(result)
        action == action_of(decision_data)
        pair == DictGet(result, "pair", NotAvailable).str
        reasoning_data == IF IsDict(decision_data)
                          THEN DictGet(decision_data, "reasoning", EmptyDict)
                          ELSE EmptyDict
        reasoning == IF IsDict(reasoning_data)
                     THEN DictGet(reasoning_data, "summary", Str(<<>>)).str
                     ELSE Format(reasoning_data)
        is_signal == action \in {BUY, SELL} /\ include_trade_params
        trade_params == trade_params_of(decision_data)
        entry_price == DictGet(trade_params, "entry_price", NotAvailable)
        stop_loss == DictGet(trade_params, "stop_loss", NotAvailable)
        target == DictGet(trade_params, "take_profit",
                          DictGet(trade_params, "target_price", NotAvailable))
        lines == (IF action = BUY THEN buy_emoji ELSE sell_emoji) \o <<" ">> \o pair \o <<" ">>
                 \o action.str \o <<" ", "@", " ">> \o Format(entry_price) \o <<"\n">>
                 \o target_label \o Format(target) \o stop_label \o Format(stop_loss) \o <<"\n">>
        signal == IF Len(lines) < 200 THEN lines \o Snippet(reasoning, 70) \o <<"\n">> ELSE lines
        informational == chart_emoji \o <<" ">> \o pair \o market_analysis
                         \o Snippet(reasoning, 150) \o <<"\n">>
        post == IF is_signal THEN signal ELSE informational
        hashtags == IF ~IsNone(custom_hashtags) /\ custom_hashtags.list # <<>>
                    THEN custom_hashtags.list
                    ELSE << <<"#", "F", "o", "r", "e", "x">>,
                            <<"#", "T", "r", "a", "d", "i", "n", "g">>,
                            <<"#">> \o WithoutSlash(pair) >>
        hashtag_str == Join(hashtags, 1)
        max_length == 280 - Len(disclaimer) - Len(hashtag_str) - 2
        fitted == IF Len(post) > max_length
                  THEN Slice(post, max_length - 3) \o <<".", ".", ".">>
                  ELSE post
    IN  fitted \o disclaimer \o <<"\n">> \o hashtag_str

\* is_trading_signal
is_trading_signal(result) ==
    LET decision_data == decision_of(result)
        action == action_of(decision_data)
        trade_params == trade_params_of(decision_data)
        given(key) == ~IsNone(DictGet(trade_params, key, None))
        has_params == /\ given("entry_price")
                      /\ given("stop_loss")
                      /\ (given("take_profit") \/ given("target_price"))
    IN  action \in {BUY, SELL} /\ has_params

\* a text of n characters
Text(n) == [i \in 1..n |-> "x"]

\* most hashtags a caller passes
MaxTags == 19

\* custom_hashtags: none, an empty list, one tag, many tags
CustomHashtags ==
    {None} \cup {[list |-> [i \in 1..n |-> <<"#", "F", "o", "r", "e", "x", "S", "i", "g", "n", "a", "l", "s">>]] :
                    n \in {0, 1, MaxTags}}

\* a key that may be missing: no mapping, or the mapping of k to one of vs
Optional(k, vs) == {EmptyDict} \cup {[x \in {k} |-> v] : v \in vs}

ParameterKeys == {"entry_price", "stop_loss", "take_profit", "target_price"}

ParameterValues ==
    [entry_price |-> 10850, stop_loss |-> 10800, take_profit |-> 10950, target_price |-> 10950]

\* every choice of keys, each holding a price or None
TradeParameters ==
    {[k \in given |-> IF k \in empty THEN None ELSE Num(ParameterValues[k])] :
        given \in SUBSET ParameterKeys, empty \in SUBSET ParameterKeys}

Reasonings == {Str(Text(71)), [summary |-> Str(Text(70))], [summary |-> Str(Text(151))]}

\* the nested shape: decision is a mapping
Decisions ==
    {DictMerge(DictMerge(a, r), t) :
        a \in Optional("action", {BUY, SELL, WAIT}),
        r \in Optional("reasoning", Reasonings),
        t \in Optional("trade_parameters", TradeParameters)}

Pairs == Optional("pair", {Str(<<"E", "U", "R", "/", "U", "S", "D">>)})

\* the results handed to the formatter: the nested shape, no decision at all,
\* and the flat shape (decision is the action, the parameters are top-level keys)
Results ==
    {DictMerge(p, d) : p \in Pairs, d \in Optional("decision", Decisions)}
        \cup {DictMerge(DictMerge(p, [decision |-> a]), t) :
                p \in Pairs, a \in {BUY, SELL, WAIT}, t \in TradeParameters}

SocialInit ==
    /\ NoRun
    /\ AnalysisIdle
    /\ PricesIdle
    /\ ConfigIdle
    /\ RiskIdle
    /\ input \in Results
    /\ output = None

FormatForTwitter ==
    /\ IsNone(output)
    /\ \E include_trade_params \in BOOLEAN, custom_hashtags \in CustomHashtags :
          output' = [call |-> "format_for_twitter",
                     include_trade_params |-> include_trade_params,
                     custom_hashtags |-> custom_hashtags,
                     value |-> Str(format_for_twitter(input, include_trade_params,
                                                      custom_hashtags))]
    /\ UNCHANGED <<workflow, config, riskcheck, analysis, prices, input>>

IsTradingSignal ==
    /\ IsNone(output)
    /\ output' = [call |-> "is_trading_signal", value |-> is_trading_signal(input)]
    /\ UNCHANGED <<workflow, config, riskcheck, analysis, prices, input>>

SocialNext == FormatForTwitter \/ IsTradingSignal

SocialSpec == SocialInit /\ [][SocialNext]_vars

(***************************************************************************)
(* Progress of one provider call.  NewsAgent.analyze is one method;        *)
(* TechnicalAgent.analyze and FundamentalAgent.analyze write their first   *)
(* events and continue in _analyze_with_llm or in _analyze_rule_based, and *)
(* _analyze_with_llm continues in _analyze_rule_based when json.loads      *)
(* rejects the reasoning output.                                           *)
(*   provider  the branch whose provider is called                         *)
(*   cursor    the method that is running and its next entry               *)
(*   written   the agent_progress events written so far                    *)
(*   outcome   running, returned (success) or failed (success = false)     *)
(***************************************************************************)
\* a progress event that is always written
Progress(step, progress_percentage) ==
    [kind |-> "write", step |-> step, progress_percentage |-> progress_percentage]

\* a progress event written only if the response carries grounding metadata
Grounded(step, progress_percentage) ==
    [kind |-> "grounded", step |-> step, progress_percentage |-> progress_percentage]

\* the place where the reasoning output is parsed
Loads == [kind |-> "loads", step |-> "json.loads", progress_percentage |-> 0]

NewsAgent ==
    [analyze |-> <<Progress("initializing_api", 10), Progress("building_prompt", 25),
                   Progress("google_search", 40), Grounded("search_complete", 60),
                   Progress("processing_results", 75), Loads,
                   Progress("analysis_complete", 90), Progress("complete", 100)>>,
     _analyze_with_llm |-> <<>>,
     _analyze_rule_based |-> <<>>]

TechnicalAgent ==
    [analyze |-> <<Progress("fetching_price", 10), Progress("price_fetched", 30)>>,
     _analyze_with_llm |-> <<Progress("llm_analysis", 50), Grounded("search_complete", 70),
                             Progress("parsing_analysis", 80), Loads,
                             Progress("analysis_complete", 90), Progress("complete", 100)>>,
     _analyze_rule_based |-> <<Progress("rule_based_analysis", 70),
                               Progress("analysis_complete", 90), Progress("complete", 100)>>]

FundamentalAgent ==
    [analyze |-> <<Progress("initializing", 10)>>,
     _analyze_with_llm |-> <<Progress("llm_analysis", 30), Progress("building_prompt", 50),
                             Progress("calling_gemini", 60), Progress("parsing_response", 75),
                             Loads,
                             Progress("analysis_complete", 90), Progress("complete", 100)>>,
     _analyze_rule_based |-> <<Progress("extracting_currencies", 50),
                               Progress("fetching_data", 70),
                               Progress("analysis_complete", 90), Progress("complete", 100)>>]

Agents == [news |-> NewsAgent, technical |-> TechnicalAgent, fundamental |-> FundamentalAgent]

\* the method the cursor is in, and the entry it is at (past the end: none)
Method == Agents[provider][cursor.path]

AtEntry(kind) ==
    /\ outcome = "running"
    /\ cursor.next <= Len(Method)
    /\ Method[cursor.next].kind = kind

Advance == cursor' = [cursor EXCEPT !.next = @ + 1]

Enter(method) == cursor' = [path |-> method, next |-> 1]

\* analyze is called on one of the three providers
ProgressInit ==
    /\ NoRun
    /\ ConfigIdle
    /\ RiskIdle
    /\ PureIdle
    /\ PricesIdle
    /\ provider \in Branches
    /\ cursor = [path |-> "analyze", next |-> 1]
    /\ written = <<>>
    /\ outcome = "running"

\* writer({"agent_progress": ...})
WriteProgress ==
    /\ AtEntry("write")
    /\ written' = Append(written, Method[cursor.next])
    /\ Advance
    /\ UNCHANGED <<workflow, config, riskcheck, pure, prices, provider, outcome>>

\* `if ...grounding_metadata:` the search result is reported, or nothing is
WriteGrounded ==
    /\ AtEntry("grounded")
    /\ \E grounding_metadata \in BOOLEAN :
          written' = IF grounding_metadata THEN Append(written, Method[cursor.next])
                     ELSE written
    /\ Advance
    /\ UNCHANGED <<workflow, config, riskcheck, pure, prices, provider, outcome>>

\* json.loads accepts the output, or raises JSONDecodeError: the technical and
\* the fundamental provider then run their rule-based analysis, the news
\* provider's except branch returns the failure
ParseOutput ==
    /\ AtEntry("loads")
    /\ \E accepted \in BOOLEAN :
          IF accepted
          THEN Advance /\ outcome' = outcome
          ELSE IF Agents[provider]._analyze_rule_based # <<>>
          THEN Enter("_analyze_rule_based") /\ outcome' = outcome
          ELSE cursor' = cursor /\ outcome' = "failed"
    /\ UNCHANGED <<workflow, config, riskcheck, pure, prices, provider, written>>

\* `if self.use_llm:` at the end of the first part of analyze
ChooseAnalysis ==
    /\ outcome = "running"
    /\ cursor.path = "analyze"
    /\ cursor.next > Len(Method)
    /\ Agents[provider]._analyze_with_llm # <<>>
    /\ \E use_llm \in BOOLEAN :
          Enter(IF use_llm THEN "_analyze_with_llm" ELSE "_analyze_rule_based")
    /\ UNCHANGED <<workflow, config, riskcheck, pure, prices, provider, written, outcome>>

\* the running method reaches its return statement
ReturnResult ==
    /\ outcome = "running"
    /\ cursor.next > Len(Method)
    /\ cursor.path = "analyze" => Agents[provider]._analyze_with_llm = <<>>
    /\ outcome' = "returned"
    /\ UNCHANGED <<workflow, config, riskcheck, pure, prices, provider, cursor, written>>

\* a call made between two writes raises (no API key, the price service, the
\* reasoning call, an empty response): the except branch returns the failure
AnalysisRaises ==
    /\ outcome = "running"
    /\ outcome' = "failed"
    /\ UNCHANGED <<workflow, config, riskcheck, pure, prices, provider, cursor, written>>

ProgressNext ==
    \/ WriteProgress
    \/ WriteGrounded
    \/ ParseOutput
    \/ ChooseAnalysis
    \/ ReturnResult
    \/ AnalysisRaises

ProgressSpec == ProgressInit /\ [][ProgressNext]_vars

(***************************************************************************)
(* The price cache of PriceService.                                        *)
(***************************************************************************)
CACHE_DURATION == 60

COMMODITIES == {<<"X","A","U">>, <<"X","A","G">>, <<"X","P","T">>, <<"X","P","D">>}

\* the last second of the modelled clock
MaxClock == 92

\* seconds that pass between two calls
Ticks == {30, 31}

\* pairs the callers ask for: the slash form, the bare six-letter form of a
\* metal, and a string pair.split("/") cuts into three parts
PricePairs == { <<"E","U","R","/","U","S","D">>,
                <<"x","a","u","u","s","d">>,
                <<"A","/","B","/","C">> }

Slashes(s) == {i \in 1..Len(s) : s[i] = "/"}

\* `base, quote = pair.split("/")` raises ValueError unless there are two parts
ParseRaises(s) == Cardinality(Slashes(s)) > 1

_parse_pair(s) ==
    IF Slashes(s) # {}
    THEN LET i == CHOOSE j \in Slashes(s) : TRUE
         IN  <<Upper(SubSeq(s, 1, i - 1)), Upper(SubSeq(s, i + 1, Len(s)))>>
    ELSE <<Upper(SubSeq(s, 1, Min2(3, Len(s)))), Upper(SubSeq(s, 4, Len(s)))>>

\* what one request can come back with: None on any failure, else the price
\* mapping of the API the base selects
Fetched(s) ==
    LET parts == _parse_pair(s)
        api   == IF parts[1] \in COMMODITIES THEN "metalpriceapi" ELSE "forexrateapi"
    IN  {None} \cup {[pair |-> parts[1] \o <<"/">> \o parts[2], price |-> p,
                      timestamp |-> clock, source |-> api] : p \in {10850}}

\* variant: an expired entry is deleted from the cache only
_get_from_cache_keeping_timestamp(s) ==
    IF s \notin DOMAIN _cache
    THEN [cache |-> _cache, timestamps |-> _cache_timestamps, cached |-> None, age |-> -1]
    ELSE LET cache_age == clock - DictGet(_cache_timestamps, s, 0)
         IN  IF cache_age > CACHE_DURATION
             THEN [cache |-> [x \in (DOMAIN _cache) \ {s} |-> _cache[x]],
                   timestamps |-> _cache_timestamps,
                   cached |-> None, age |-> cache_age]
             ELSE [cache |-> _cache, timestamps |-> _cache_timestamps,
                   cached |-> _cache[s], age |-> cache_age]

\* the two tables after the lookup, the entry found and its age
_get_from_cache(s) ==
    IF s \notin DOMAIN _cache
    THEN [cache |-> _cache, timestamps |-> _cache_timestamps, cached |-> None, age |-> -1]
    ELSE LET cache_age == clock - DictGet(_cache_timestamps, s, 0)
         IN  IF cache_age > CACHE_DURATION
             THEN [cache |-> [x \in (DOMAIN _cache) \ {s} |-> _cache[x]],
                   timestamps |-> [x \in (DOMAIN _cache_timestamps) \ {s} |-> _cache_timestamps[x]],
                   cached |-> None, age |-> cache_age]
             ELSE [cache |-> _cache, timestamps |-> _cache_timestamps,
                   cached |-> _cache[s], age |-> cache_age]

\* get_price on a pair whose request, if one is made, comes back with
\* price_data: the tables and the result after it. A call is over within the
\* second it began in, so both readings of time.time() are `clock`
get_price(s, price_data) ==
    LET hit == _get_from_cache(s)
    IN  IF Truthy(hit.cached)
        THEN [cache |-> hit.cache, timestamps |-> hit.timestamps,
              result |-> hit.cached, from |-> "cache", age |-> hit.age]
        ELSE IF ParseRaises(s)
        THEN [cache |-> hit.cache, timestamps |-> hit.timestamps,
              result |-> None, from |-> "raised", age |-> hit.age]
        ELSE IF Truthy(price_data)
        THEN [cache |-> DictSet(hit.cache, s, price_data),
              timestamps |-> DictSet(hit.timestamps, s, clock),
              result |-> price_data, from |-> "fetch", age |-> hit.age]
        ELSE [cache |-> hit.cache, timestamps |-> hit.timestamps,
              result |-> price_data, from |-> "fetch", age |-> hit.age]

\* the requests a call can make: none where the result does not depend on one
Requests(s) ==
    IF Truthy(_get_from_cache(s).cached) \/ ParseRaises(s)
    THEN {None}
    ELSE Fetched(s)

PriceInit ==
    /\ NoRun
    /\ ConfigIdle
    /\ RiskIdle
    /\ PureIdle
    /\ AnalysisIdle
    /\ PricesIdle

GetPrice(s) ==
    /\ \E request \in Requests(s) :
          LET after == get_price(s, request)
          IN  /\ _cache' = after.cache
              /\ _cache_timestamps' = after.timestamps
              /\ delivered' = [pair |-> s, result |-> after.result, from |-> after.from,
                               age |-> after.age, enriched |-> FALSE]
    /\ UNCHANGED <<workflow, observed, config, riskcheck, pure, analysis, clock>>

\* get_enriched_price writes the history into the mapping get_price returned,
\* which is the cached one
GetEnrichedPrice(s) ==
    /\ \E request \in Requests(s), ohlc \in {None, [source |-> "ohlc"]} :
          LET after == get_price(s, request)
              current == [pair |-> after.result.pair, price |-> after.result.price,
                          timestamp |-> after.result.timestamp, source |-> after.result.source,
                          ohlc |-> ohlc]
          IN  /\ after.from # "raised"
              /\ _cache_timestamps' = after.timestamps
              /\ IF Truthy(after.result)
                 THEN /\ _cache' = DictSet(after.cache, s, current)
                      /\ delivered' = [pair |-> s, result |-> current, from |-> after.from,
                                       age |-> after.age, enriched |-> TRUE]
                 ELSE /\ _cache' = after.cache
                      /\ delivered' = [pair |-> s, result |-> None, from |-> after.from,
                                       age |-> after.age, enriched |-> TRUE]
    /\ UNCHANGED <<workflow, observed, config, riskcheck, pure, analysis, clock>>

\* get_enriched_price on a pair get_price raises on: the exception passes through
EnrichedPriceRaises(s) ==
    /\ get_price(s, None).from = "raised"
    /\ _cache' = get_price(s, None).cache
    /\ _cache_timestamps' = get_price(s, None).timestamps
    /\ delivered' = [pair |-> s, result |-> None, from |-> "raised",
                     age |-> get_price(s, None).age, enriched |-> TRUE]
    /\ UNCHANGED <<workflow, observed, config, riskcheck, pure, analysis, clock>>

clear_cache ==
    /\ _cache # EmptyDict
    /\ _cache' = EmptyDict
    /\ _cache_timestamps' = EmptyDict
    /\ UNCHANGED <<workflow, observed, config, riskcheck, pure, analysis, clock, delivered>>

Tick(dt) ==
    /\ clock + dt <= MaxClock
    /\ clock' = clock + dt
    /\ UNCHANGED <<workflow, observed, config, riskcheck, pure, analysis, _cache, _cache_timestamps, delivered>>

PriceNext ==
    \/ \E s \in PricePairs : GetPrice(s)
    \/ \E s \in PricePairs : GetEnrichedPrice(s)
    \/ \E s \in PricePairs : EnrichedPriceRaises(s)
    \/ clear_cache
    \/ \E dt \in Ticks : Tick(dt)

PriceSpec == PriceInit /\ [][PriceNext]_vars

\* the graph scheduler runs an enabled node; nothing in it waits forever
FairSpec == Spec /\ WF_vars(Next)

(***************************************************************************)
(* Properties.                                                             *)
(***************************************************************************)
Terminated == node \in {"end", "aborted"}

\* outcomes of a reasoning call that send a node to its fallback
FailKinds == {"raised", "unparsable", "not_mapping"}

\* outcomes of a branch in which an exception was raised
RaisedKinds == {"raised", "escaped"}

\* the errors map as a mapping (None holds no entry)
ErrorsOf(st) == OrEmpty(st.errors)

ResultSlots == {"query_context", "pair", "news_result", "technical_result",
                "fundamental_result", "risk_result", "decision", "report_result"}

Owner == [query_context |-> "query_parser", pair |-> "query_parser",
          news_result |-> "parallel_analysis", technical_result |-> "parallel_analysis",
          fundamental_result |-> "parallel_analysis", risk_result |-> "risk",
          decision |-> "synthesis", report_result |-> "report"]

SequentialNodes == {"query_parser", "risk", "synthesis", "report"}

\* C1: every run, whatever the providers and reasoning calls do, stops in the
\* end state, and the state it stops in holds a non-null decision.
C1_RunEndsWithDecision ==
    Terminated => (node = "end" /\ ~IsNone(state.decision))

\* C2: when the synthesis reasoning call raises, times out or returns text that
\* cannot be used, synthesis_node does not raise; it stores exactly the safe
\* default decision, records the reason under errors["synthesis"] and raises
\* step_count by 1.
C2_SynthesisFallback ==
    [][ (node = "synthesis" /\ node' # "synthesis" /\ calls'["synthesis"].kind \in FailKinds)
        => /\ node' = "report"
           /\ failure' = "none"
           /\ state'.decision =
                 [action |-> "WAIT", confidence |-> 0,
                  reasoning |-> [summary |-> <<"Synthesis failed: ", calls'["synthesis"].msg>>,
                                 error |-> TRUE]]
           /\ "synthesis" \in DOMAIN ErrorsOf(state')
           /\ ErrorsOf(state')["synthesis"] = calls'["synthesis"].msg
           /\ state'.step_count = state.step_count + 1 ]_vars

C2_Witness ==
    /\ node = "report"
    /\ calls["synthesis"].kind = "raised"
    /\ state.decision.action = "WAIT"
    /\ "synthesis" \in DOMAIN ErrorsOf(state)

\* C3: whatever the risk stage leaves in risk_result, should_continue_after_risk
\* answers "continue": the node that runs after risk is synthesis and the edge
\* from risk to end is never taken.
C3_RiskIsAdvisory ==
    [][ (node = "risk" /\ node' # "risk")
        => /\ should_continue_after_risk(state') = "continue"
           /\ node' = "synthesis" ]_vars

C3_Witness ==
    /\ node = "synthesis"
    /\ state.risk_result.success
    /\ ~state.risk_result.data.trade_approved

\* the step count a branch hands to the merge: its update's, or the one the
\* coordinator gives a branch whose coroutine raised
BranchSteps(b) ==
    IF IsException(results[b]) THEN state.step_count + 1 ELSE results[b]["step_count"]

\* C4: on the concurrent path, when some but not all branches raise and the
\* others return a success result, the coordinator does not raise; the merged
\* update keeps each successful result in its slot, puts {success: false,
\* error: message} in each raised branch's slot with an errors entry under the
\* branch's name, and step_count is the maximum of the branch step counts.
C4_BranchIsolation ==
    [][ LET raising == {b \in Branches : calls[b].kind \in RaisedKinds}
        IN  (/\ node = "parallel_analysis" /\ phase = "gather" /\ phase' = "done"
             /\ raising # {}
             /\ raising # Branches
             /\ \A b \in Branches \ raising : calls[b].kind = "ok")
            => /\ node' = "risk"
               /\ failure' = "none"
               /\ \A b \in raising :
                     /\ state'[Slot[b]] = [success |-> FALSE, error |-> calls[b].msg]
                     /\ b \in DOMAIN ErrorsOf(state')
                     /\ ErrorsOf(state')[b] = calls[b].msg
               /\ \A b \in Branches \ raising : state'[Slot[b]] = calls[b].result
               /\ \E b \in Branches : state'.step_count = BranchSteps(b)
               /\ \A b \in Branches : BranchSteps(b) <= state'.step_count ]_vars

C4_Witness ==
    /\ node = "risk"
    /\ path = "concurrent"
    /\ calls["technical"].kind = "escaped"
    /\ calls["news"].kind = "ok"
    /\ calls["fundamental"].kind = "ok"
    /\ ~state.technical_result.success
    /\ state.news_result.success
    /\ state.fundamental_result.success

\* C5: the errors map only grows: every entry present before a step is present
\* with the same message after it.
C5_ErrorsOnlyGrow ==
    [][ \A k \in DOMAIN ErrorsOf(state) :
           /\ k \in DOMAIN ErrorsOf(state')
           /\ ErrorsOf(state')[k] = ErrorsOf(state)[k] ]_vars

\* the stages that degraded in a finished run
Degraded ==
    {b \in Branches : ~DictGet(state[Slot[b]], "success", FALSE)}
    \cup (IF ~DictGet(state.risk_result, "success", FALSE) THEN {"risk"} ELSE {})
    \cup (IF calls["report"].kind \in {"failed", "raised"} THEN {"report"} ELSE {})
    \cup (IF calls["query_parser"].kind \in FailKinds THEN {"query_parser"} ELSE {})
    \cup (IF calls["synthesis"].kind \in FailKinds THEN {"synthesis"} ELSE {})

\* C6: at the end of a run the errors map has an entry for every stage whose
\* result has success=false and for query_parser and synthesis when they fell back.
C6_ErrorsEnumerateDegraded ==
    node = "end" => \A s \in Degraded : s \in DOMAIN ErrorsOf(state)

\* C7: when the normaliser's reasoning call fails, query_parser_node does not
\* raise, whichever entry point built the inputs; it returns a query_context
\* with a pair, sets pair, raises step_count by 1 and records the failure under
\* errors["query_parser"].
C7_ParserFallbackNeverRaises ==
    calls["query_parser"].kind \in FailKinds
    => /\ failure # "query_parser"
       /\ (node = "parallel_analysis" /\ phase = "idle")
          => /\ "pair" \in DOMAIN state.query_context
             /\ ~IsNone(state.pair)
             /\ state.step_count = 1
             /\ "query_parser" \in DOMAIN ErrorsOf(state)
             /\ ErrorsOf(state)["query_parser"] = calls["query_parser"].msg

\* C8: no exception leaves a node function.
C8_NoStageRaises ==
    failure = "none"

\* C9: a result slot that holds a value is never changed by a later step, and
\* a slot is written only while its owning stage runs.
C9_SlotsWrittenOnce ==
    [][ \A k \in ResultSlots :
           /\ ~IsNone(StateGet(state, k)) => StateGet(state', k) = StateGet(state, k)
           /\ ~IsNone(StateGet(state', k)) /\ IsNone(StateGet(state, k)) => node = Owner[k] ]_vars

C9_Witness ==
    /\ node = "end"
    /\ \A k \in ResultSlots \ {"report_result"} : ~IsNone(StateGet(state, k))
    /\ calls["risk"].kind = "ok"

\* C10: step_count never decreases; a sequential stage raises it by exactly 1;
\* the parallel stage, on the concurrent path and on the fallback path alike,
\* advances it to the maximum of the step counts its three branches report for
\* the state the stage was given, never to the sum of their increments.
C10_StepCount ==
    [][ LET Reported(b) ==
                branch_update(b, state, branch_node(b, state, calls'[b]))["step_count"]
            Increment(b) == Reported(b) - state.step_count
        IN  /\ state'.step_count >= state.step_count
            /\ (node \in SequentialNodes /\ node' \notin {node, "aborted"})
               => state'.step_count = state.step_count + 1
            /\ (node = "parallel_analysis" /\ node' = "risk")
               => /\ \E b \in Branches : state'.step_count = Reported(b)
                  /\ \A b \in Branches : Reported(b) <= state'.step_count
                  /\ state'.step_count
                        # state.step_count + Increment("news") + Increment("technical")
                                           + Increment("fundamental") ]_vars

BranchOrder == <<"news", "technical", "fundamental">>

\* the state the sequential fallback hands to the i-th branch: the coordinator's
\* state overlaid with the updates of the branches that ran before it
RECURSIVE SeenBy(_)
SeenBy(i) == IF i = 1 THEN state ELSE DictMerge(SeenBy(i - 1), results[BranchOrder[i - 1]])

\* C11: when the concurrent attempt has failed, the coordinator awaits the news,
\* technical and fundamental nodes one after another in that order, each on the
\* state as updated by the ones before it; when the last has returned, the
\* update holds all three result slots and the failure of the concurrent
\* attempt under errors["parallel_execution"].  (The coordinator gives up only
\* when a branch node function itself raises.)
C11_SequentialFallback ==
    [][ (node = "parallel_analysis" /\ phase = "fallback")
        => IF node' = "aborted"
           THEN \E b \in Branches : calls'[b].kind = "escaped"
           ELSE /\ \E i \in 1..3 :
                     LET b == BranchOrder[i]
                     IN  /\ \A j \in 1..(i - 1) : ~IsNone(results[BranchOrder[j]])
                         /\ \A j \in i..3 : IsNone(results[BranchOrder[j]])
                         /\ \A j \in (i + 1)..3 : IsNone(results'[BranchOrder[j]])
                         /\ results'[b] = branch_node(b, SeenBy(i), calls'[b])
                         /\ (phase' = "done") <=> (i = 3)
                /\ phase' = "done"
                   => /\ node' = "risk"
                      /\ failure' = "none"
                      /\ \A b \in Branches :
                            /\ ~IsNone(state'[Slot[b]])
                            /\ state'[Slot[b]] = results'[b][Slot[b]]
                      /\ ~IsNone(state'.errors)
                      /\ "parallel_execution" \in DOMAIN state'.errors
                      /\ state'.errors["parallel_execution"] = gather_error ]_vars

C11_Witness ==
    /\ node = "risk"
    /\ path = "fallback"
    /\ \A b \in Branches : ~IsNone(state[Slot[b]])
    /\ "parallel_execution" \in DOMAIN ErrorsOf(state)
    /\ state.step_count = 4

StageOrder == <<"query_parser", "parallel_analysis", "risk", "synthesis", "report">>

IsPrefix(s, t) == Len(s) <= Len(t) /\ \A i \in 1..Len(s) : s[i] = t[i]

\* C12: the node functions are invoked in the order query_parser,
\* parallel_analysis, risk, synthesis, report, none of them twice, and the end
\* state is entered only when all five, report last, have been invoked.
C12_StagesInOrderOnce ==
    /\ IsPrefix(executed, StageOrder)
    /\ node = "end" => executed = StageOrder
    /\ node \in {"risk", "synthesis", "report"}
       => /\ Len(executed) < Len(StageOrder)
          /\ node = StageOrder[Len(executed) + 1]

C12_Witness ==
    /\ node = "end"
    /\ executed = StageOrder
    /\ calls["report"].kind = "failed"

\* positions of an event in the stream
At(e) == {i \in 1..Len(events) : events[i] = e}

OfType(t) == {i \in 1..Len(events) : events[i].type = t}

Before(I, J) == \A i \in I, j \in J : i < j

\* the slots of C13 with their derived events
C13Slots == {i \in 1..Len(Derived) : Derived[i].slot # "report_result"}

\* C13: for each of query_context, news_result, technical_result,
\* fundamental_result, risk_result and decision the stream holds exactly one
\* derived event once a consumed snapshot holds a non-null value in the slot,
\* and none before.
C13_OneEventPerSlot ==
    \A i \in C13Slots :
        Cardinality(At(Derived[i].event))
            = IF IsNone(StateGet(prev_state, Derived[i].slot)) THEN 0 ELSE 1

\* C14: once the report stage has completed, the snapshot holds a non-null
\* report_result and the stream holds exactly one report_update, after the
\* decision event and before complete.
C14_ReportUpdateEmitted ==
    node = "end"
    => /\ ~IsNone(StateGet(prev_state, "report_result"))
       /\ Cardinality(OfType("report_update")) = 1
       /\ Before(OfType("decision"), OfType("report_update"))
       /\ Before(OfType("report_update"), OfType("complete"))

BranchEvents == {i \in 1..Len(events) : events[i].agent \in Branches}

C18_DecisionIsValid ==
    node = "end"
    => /\ ~IsNone(state.decision)
       /\ "action" \in DOMAIN state.decision
       /\ "confidence" \in DOMAIN state.decision
       /\ state.decision["action"] \in {"BUY", "SELL", "WAIT"}
       /\ state.decision["confidence"] \in 0..100

StoredResults == {"news_result", "technical_result", "fundamental_result",
                  "risk_result", "report_result"}

\* C19: a stored result with success=false has no data, or empty data, and a
\* non-empty error string.
C19_FailureResultShape ==
    \A k \in StoredResults :
        LET r == StateGet(state, k)
        IN  (~IsNone(r) /\ ~DictGet(r, "success", FALSE))
            => /\ "data" \in DOMAIN r => DOMAIN r["data"] = {}
               /\ "error" \in DOMAIN r
               /\ r["error"] # ""

\* the setting a request asked for: its own value, else the default
Intended(req, field, key) ==
    IF req[field] # Absent THEN req[field] ELSE float(key, DefaultSetting[key])

\* C17: the risk stage of every invocation uses the account_balance and
\* max_risk_per_trade the invocation was submitted with, or the defaults when
\* it named none, whatever other invocations came before or run beside it.
C17_InvocationsIndependent ==
    \A i \in 1..Len(requests) :
        requests[i].stage = "done"
        => /\ requests[i].used.account_balance
                = Intended(requests[i], "account_balance", "ACCOUNT_BALANCE")
           /\ requests[i].used.max_risk_per_trade
                = Intended(requests[i], "max_risk_per_trade", "MAX_RISK_PER_TRADE")

\* the distance between two prices in pips, as a number
PipsBetween(a, b) == IF a >= b THEN a - b ELSE b - a

\* C20: the rule-based check approves a trade exactly when its risk in pips is
\* above 0, at most 100 and at least 10, and its reward is at least 1.5 times
\* its risk when a take profit is given; 10 pips and 100 pips are approved.
C20_RuleBasedApproval ==
    ~IsNone(verdict)
    => (verdict.trade_approved
        <=> /\ PipsBetween(trade.entry_price, trade.stop_loss) > 0
            /\ PipsBetween(trade.entry_price, trade.stop_loss) <= 100
            /\ PipsBetween(trade.entry_price, trade.stop_loss) >= 10
            /\ trade.take_profit # Absent
                => 2 * PipsBetween(trade.take_profit, trade.entry_price)
                    >= 3 * PipsBetween(trade.entry_price, trade.stop_loss))

\* the reason of the first rule a verdict's own numbers fail, in the order
\* risk > 0, risk <= 100, risk >= 10, ratio >= 1.5
FirstFailingRule(v) ==
    IF ~FloatLess(FloatOf(0, 0), v.risk_in_pips) THEN "Invalid stop loss"
    ELSE IF FloatLess(FloatOf(100, 0), v.risk_in_pips) THEN "Risk too high"
    ELSE IF FloatLess(v.risk_in_pips, FloatOf(10, 0)) THEN "Risk too small"
    ELSE IF v.risk_reward_ratio.given /\ FloatLess(v.risk_reward_ratio.value, FloatOf(15, 1))
    THEN "Poor risk/reward ratio"
    ELSE "-"

\* C21: the rejection reason is that of the first failing rule in the order
\* risk_in_pips > 0, risk_in_pips <= 100, risk_in_pips >= 10, risk/reward >= 1.5;
\* a trade of 5 pips is rejected as below the minimum of 10 pips whatever its
\* take profit.
C21_FirstFailingRuleReported ==
    ~IsNone(verdict) => verdict.rejection_reason = FirstFailingRule(verdict)

\* the pips of risk and of reward of the trade, and its balance times its risk
\* fraction in cents, as numbers
RiskPips == PipsBetween(trade.entry_price, trade.stop_loss)

RewardPips == PipsBetween(trade.take_profit, trade.entry_price)

RiskCents == trade.account_balance * trade.max_risk_per_trade

Distance(x, y) == IF x >= y THEN x - y ELSE y - x

\* C22 as stated: the results are the values of the formulas.
C22_FormulaValues ==
    (~IsNone(verdict) /\ RiskPips > 0)
    => /\ verdict.data.risk_in_pips = 10 * RiskPips
       /\ verdict.data.dollar_risk = RiskCents
       /\ verdict.data.position_size * 10 * RiskPips = RiskCents
       /\ verdict.data.reward_given
           => /\ verdict.data.reward_in_pips = 10 * RewardPips
              /\ verdict.data.risk_reward_ratio * RiskPips = 100 * RewardPips
              /\ verdict.data.potential_profit * RiskPips = RewardPips * RiskCents

\* C22: for a positive risk the results are the values of the formulas
\* risk_in_pips = |e - s| * 10000, dollar_risk = B * f, position_size =
\* (B * f) / (risk_in_pips * 10), reward_in_pips = |t - e| * 10000,
\* risk_reward_ratio = reward_in_pips / risk_in_pips and potential_profit =
\* risk_reward_ratio * dollar_risk, each to within half a unit of the last
\* decimal reported (one decimal for pips, two for the others); 50 pips of
\* risk with B = 10000 and f = 0.02 give 200.00 and 0.40, and 100 pips of
\* reward then give 2.0 and 400.00.
C22_FormulaValuesRounded ==
    (~IsNone(verdict) /\ RiskPips > 0)
    => /\ verdict.data.risk_in_pips = 10 * RiskPips
       /\ verdict.data.dollar_risk = RiskCents
       /\ 2 * Distance(verdict.data.position_size * 10 * RiskPips, RiskCents) <= 10 * RiskPips
       /\ verdict.data.reward_given
           => /\ verdict.data.reward_in_pips = 10 * RewardPips
              /\ 2 * Distance(verdict.data.risk_reward_ratio * RiskPips, 100 * RewardPips)
                    <= RiskPips
              /\ 2 * Distance(verdict.data.potential_profit * RiskPips, RewardPips * RiskCents)
                    <= RiskPips
       /\ (RiskPips = 50 /\ RiskCents = 20000)
           => /\ verdict.data.dollar_risk = 20000
              /\ verdict.data.position_size = 40
              /\ (verdict.data.reward_given /\ RewardPips = 100)
                  => /\ verdict.data.risk_reward_ratio = 200
                     /\ verdict.data.potential_profit = 40000

C22_Witness ==
    /\ ~IsNone(verdict)
    /\ RiskPips = 150
    /\ RewardPips = 100
    /\ trade.take_profit # Absent
    /\ verdict.data.position_size = 13
    /\ verdict.data.risk_reward_ratio = 67

\* the aliases of the table whose keyword the query contains, whatever the case
AliasesIn(q) == {k \in 1..Len(mappings) : Contains(Lower(q), mappings[k].keyword)}

\* the query holds three letters, at most one of "/" and " ", and three letters
HasPairPattern(q) ==
    \E i \in 1..Len(q) : \E sep \in {0, 1} :
        /\ i + 5 + sep <= Len(q)
        /\ \A j \in {0, 1, 2, 3 + sep, 4 + sep, 5 + sep} : IsUpperLetter(UpperChar(q[i + j]))
        /\ sep = 1 => q[i + 3] \in {"/", " "}

\* base, "/" and quote, neither of them empty
IsPair(p) ==
    \E i \in 2..(Len(p) - 1) :
        /\ p[i] = "/"
        /\ \A j \in 1..Len(p) : j # i => p[j] # "/"

ReportFails ==
    /\ node = "report"
    /\ executed' = Append(executed, "report")
    /\ calls'["report"].kind \in {"failed", "raised"}

\* what a failed report stage leaves behind, the stored report_result apart
ReportFailureTolerated ==
    /\ \A k \in {"decision", "news_result", "technical_result", "fundamental_result",
                  "risk_result"} : state'[k] = state[k]
    /\ node' = "end"
    /\ events'[Len(events')] = Event("complete", "-")

\* C24: when the report provider fails or raises, the state holds a
\* report_result with success false, an error message and html null, decision
\* and the four agent results are as before, the run is at its end and the
\* stream has yielded complete.
C24_ReportFailureStored ==
    [][ReportFails
        => /\ "report_result" \in DOMAIN state'
           /\ StateGet(state', "report_result").success = FALSE
           /\ ~IsNone(Str(StateGet(state', "report_result").error))
           /\ IsNone(StateGet(state', "report_result").html)
           /\ ReportFailureTolerated]_vars

\* keys every stage may write beside its own slots
SharedKeys == {"step_count", "errors"}

\* C25: a step changes only result slots owned by the stage that runs, plus
\* step_count and errors; user_query, messages and should_continue are never
\* changed; and the update a stage returns names no other key (the report
\* stage's names report_result).
C25_StagesWriteOwnSlots ==
    [][ /\ \A k \in DOMAIN state :
              state'[k] # state[k] => k \in SharedKeys \/ (k \in ResultSlots /\ Owner[k] = node)
        /\ \A k \in {"user_query", "messages", "should_continue"} : state'[k] = state[k]
        /\ (node = "report" /\ node' = "end")
           => DOMAIN report_node(state, calls'["report"])
                \subseteq SharedKeys \cup {k \in ResultSlots : Owner[k] = "report"}
        /\ (node = "synthesis" /\ node' = "report")
           => DOMAIN synthesis_node(state, calls'["synthesis"])
                \subseteq SharedKeys \cup {k \in ResultSlots : Owner[k] = "synthesis"}
        /\ (node = "risk" /\ node' = "synthesis")
           => DOMAIN risk_node(state, calls'["risk"])
                \subseteq SharedKeys \cup {k \in ResultSlots : Owner[k] = "risk"}
        /\ (node = "query_parser" /\ node' = "parallel_analysis")
           => DOMAIN query_parser_node(state, calls'["query_parser"])
                \subseteq SharedKeys \cup {k \in ResultSlots : Owner[k] = "query_parser"} ]_vars

C25_Witness ==
    /\ node = "end"
    /\ Len(executed) = 5
    /\ state.step_count > 0
    /\ DOMAIN ErrorsOf(state) # {}
    /\ state.should_continue = TRUE

StreamEventTypes == {"start", "query_parsed", "agent_start", "agent_progress", "agent_update",
                     "risk_update", "decision", "report_update", "complete", "error"}

\* C26: every event analyze_stream yields has one of the ten types start,
\* query_parsed, agent_start, agent_progress, agent_update, risk_update,
\* decision, report_update, complete and error, and a data mapping that holds
\* a timestamp.
C26_EventsWellFormed ==
    \A i \in 1..Len(events) :
        /\ events[i].type \in StreamEventTypes
        /\ events[i].stamped

C28_TweetFits ==
    (~IsNone(output) /\ output.call = "format_for_twitter") =>
        Len(output.value.str) <= 280

\* an entry price, a stop loss and a target are present, in the mapping that
\* holds the parameters of the result's shape
Present(mapping, key) == key \in DOMAIN mapping /\ ~IsNone(mapping[key])

HasParameters(mapping) ==
    /\ Present(mapping, "entry_price")
    /\ Present(mapping, "stop_loss")
    /\ (Present(mapping, "take_profit") \/ Present(mapping, "target_price"))

IsSignal(result) ==
    IF "decision" \notin DOMAIN result THEN FALSE
    ELSE IF IsDict(result.decision)
    THEN /\ "action" \in DOMAIN result.decision
         /\ result.decision.action \in {BUY, SELL}
         /\ "trade_parameters" \in DOMAIN result.decision
         /\ HasParameters(result.decision.trade_parameters)
    ELSE result.decision \in {BUY, SELL} /\ HasParameters(result)

\* C29: is_trading_signal is true exactly when the action is BUY or SELL and
\* entry price, stop loss and a target are all present, for the nested shape
\* and for the flat shape of a result.
C29_SignalDetected ==
    (~IsNone(output) /\ output.call = "is_trading_signal") =>
        (output.value <=> IsSignal(input))

\* the same for results of the nested shape only
C29_NestedSignalDetected ==
    (~IsNone(output) /\ output.call = "is_trading_signal"
        /\ ("decision" \in DOMAIN input => IsDict(input.decision))) =>
        (output.value <=> IsSignal(input))

\* C30: parallel_analysis_node produces its merged update only after all three
\* branches have finished, and the update is the one that the three branches'
\* outcomes give in the order of gather's arguments, whatever the order in
\* which the branches completed.
C30_MergedAfterAllFinished ==
    [][(phase = "gather" /\ phase' = "done") =>
          /\ \A b \in Branches : ~IsNone(results[b])
          /\ Len(finished) = Len(Arguments)
          /\ state' = ApplyUpdate(state,
                                  merge_results(state, [b \in Branches |->
                                                           branch_node(b, state, calls[b])]))]_vars

\* the merged update was produced after the branches completed in the reverse
\* of the argument order, one of them failing
C30_Witness ==
    /\ path = "concurrent"
    /\ node = "risk"
    /\ finished = <<"fundamental", "technical", "news">>
    /\ \E b \in Branches : Failing(calls[b])
    /\ Truthy(StateGet(state, "errors"))

(***************************************************************************)
(* Invocations of the branch providers within one run.                     *)
(***************************************************************************)
\* positions of the stream holding the agent_start of branch b
Starts(b) == {i \in DOMAIN events : events[i] = agent_start(b)}

\* C31: within one run each of the news, technical and fundamental providers
\* is invoked at most once and emits at most one agent_start event, on every
\* path through the coordinator, the fallback after a failed concurrent
\* attempt whose branches have run included
C31_BranchInvokedOnce ==
    \A b \in Branches :
        /\ invoked[b] <= 1
        /\ Cardinality(Starts(b)) <= 1

\* the paths on which the claim's bound holds: a run whose coordinator has not
\* entered the sequential fallback
OnceOutsideFallback ==
    (phase # "fallback" /\ path # "fallback") => C31_BranchInvokedOnce

(***************************************************************************)
(* The risk stage's early returns.                                         *)
(***************************************************************************)
\* the technical result offers what the risk provider needs
HasPrices(st) ==
    /\ ~IsNone(st.technical_result)
    /\ "success" \in DOMAIN st.technical_result
    /\ st.technical_result.success = TRUE
    /\ "data" \in DOMAIN st.technical_result
    /\ {"current_price", "stop_loss"} \subseteq DOMAIN st.technical_result.data

\* C32: risk_node invokes the risk provider only when technical_result has
\* success = true and both current_price and stop_loss in its data; in every
\* other case it stores a risk_result with success = false and trade_approved
\* = false without invoking the provider, adds 1 to step_count, and the run
\* proceeds to synthesis
C32_RiskEarlyReturns ==
    [][ (node = "risk" /\ node' # "risk")
        => /\ calls'["risk"] # NoCall => HasPrices(state)
           /\ ~HasPrices(state)
                => /\ calls'["risk"] = NoCall
                   /\ state'.risk_result.success = FALSE
                   /\ state'.risk_result.data.trade_approved = FALSE
                   /\ state'.step_count = state.step_count + 1
                   /\ node' = "synthesis" ]_vars

\* a run whose technical result succeeded without a stop_loss has passed the
\* risk stage
C32_Witness ==
    /\ node = "synthesis"
    /\ calls["risk"] = NoCall
    /\ state.technical_result.success
    /\ "stop_loss" \notin DOMAIN state.technical_result.data
    /\ ~state.risk_result.success
    /\ ~state.risk_result.data.trade_approved

\* a run whose technical result failed has passed the risk stage
C32_WitnessFailed ==
    /\ node = "synthesis"
    /\ calls["risk"] = NoCall
    /\ ~state.technical_result.success
    /\ ~state.risk_result.success

(***************************************************************************)
(* The ends of the event stream.                                           *)
(***************************************************************************)
\* positions of the stream holding a terminal event
Terminals == OfType("complete") \cup OfType("error")

\* C33: every event stream of analyze_stream begins with exactly one start
\* event and ends with exactly one terminal event, complete when the workflow
\* ran to the end and error when an exception escaped it; complete and error
\* never both occur in one stream and no event follows the terminal one
C33_StreamFraming ==
    observed =>
        /\ events # <<>>
        /\ OfType("start") = {1}
        /\ Cardinality(Terminals) <= 1
        /\ Terminals \subseteq {Len(events)}
        /\ (node = "end") <=> (OfType("complete") # {})
        /\ (node = "aborted") <=> (OfType("error") # {})

\* a stream that ended with error after the fallback's branch raised
C33_Witness ==
    /\ observed
    /\ node = "aborted"
    /\ Len(events) > 2
    /\ events[Len(events)] = Event("error", "-")

\* a stream that ended with complete
C33_WitnessComplete ==
    /\ observed
    /\ node = "end"
    /\ events[Len(events)] = Event("complete", "-")

(***************************************************************************)
(* Failures of the progress sink.                                          *)
(***************************************************************************)
\* the branch's slot holds what its provider returned
HoldsProviderResult(st, b) ==
    /\ ~IsNone(st[Slot[b]])
    /\ "agent" \in DOMAIN st[Slot[b]]
    /\ st[Slot[b]].agent = AgentName[b]

\* C34: a failure of the progress sink does not abort the stage that called
\* it: if emitting agent_start raises inside a branch stage, the stage still
\* invokes its provider and stores the provider's result in its slot
C34_SinkFailureTolerated ==
    \A b \in Branches :
        (IsSink(calls[b]) /\ phase = "done")
            => /\ invoked[b] > 0
               /\ HoldsProviderResult(state, b)

\* what the code does instead: the stage's slot holds the failure its except
\* branch built from the sink's exception, and the run goes on
SinkFailureRecorded ==
    \A b \in Branches :
        (IsSink(calls[b]) /\ phase = "done")
            => /\ state[Slot[b]] = [success |-> FALSE, error |-> SinkRaised.msg]
               /\ invoked[b] = 0 \/ path = "fallback"
               /\ node # "aborted"

(***************************************************************************)
(* Explicit pairs in a query.                                              *)
(***************************************************************************)
\* a word of the query starts at i and ends at j
IsWord(q, i, j) ==
    /\ i = 1 \/ q[i - 1] = " "
    /\ j = Len(q) \/ q[j + 1] \in {" ", "?"}

IsLetter(c) == IsUpperLetter(UpperChar(c))

\* the pairs written in the query as a word BASE/QUOTE or BASEQUOTE, in
\* canonical form
ExplicitPairs(q) ==
    { <<UpperChar(q[i]), UpperChar(q[i + 1]), UpperChar(q[i + 2]), "/",
        UpperChar(q[i + 3 + sep]), UpperChar(q[i + 4 + sep]), UpperChar(q[i + 5 + sep])>> :
        <<i, sep>> \in { x \in (1..Len(q)) \X {0, 1} :
                        /\ x[1] + 5 + x[2] <= Len(q)
                        /\ IsWord(q, x[1], x[1] + 5 + x[2])
                        /\ \A j \in {0, 1, 2, 3 + x[2], 4 + x[2], 5 + x[2]} : IsLetter(q[x[1] + j])
                        /\ x[2] = 1 => q[x[1] + 3] = "/" } }

\* C35: when the query contains no alias keyword but an explicit pair written
\* BASE/QUOTE or BASEQUOTE, possibly surrounded by other words,
\* _fallback_parse returns that pair in the canonical form BASE/QUOTE
C35_ExplicitPairReturned ==
    (~IsNone(output) /\ AliasesIn(input) = {} /\ ExplicitPairs(input) # {})
        => output.str \in ExplicitPairs(input)

\* the leftmost place of the upper-cased query where the pattern matches
FirstMatch(q) ==
    LET found == {i \in 1..Len(q) : PairMatchAt(Upper(q), i) > 0}
    IN  IF found = {} THEN 0 ELSE CHOOSE i \in found : \A k \in found : i <= k

\* what holds instead: the pair is returned when the leftmost match of the
\* pattern is the pair itself, i.e. when nothing to its left matches
PairReturnedWhenLeftmost ==
    (~IsNone(output) /\ AliasesIn(input) = {} /\ ExplicitPairs(input) # {})
        => LET i == FirstMatch(input)
           IN  (IsWord(input, i, i + 2 + PairMatchAt(Upper(input), i)) /\ input[i + 3] # " ")
                  => output.str \in ExplicitPairs(input)

(***************************************************************************)
(* The two places of the pair.                                             *)
(***************************************************************************)
\* query_parser_node has run and returned its update
Parsed == Len(executed) > 0 /\ ~(node = "aborted" /\ failure = "query_parser")

\* C36: after query_parser_node has run, on the reasoning path and on the
\* fallback path, the flat pair field equals the pair recorded inside
\* query_context, in that state and in every later state of the run
C36_PairMatchesContext ==
    Parsed
        => /\ "pair" \in DOMAIN state.query_context
           /\ state.pair = state.query_context.pair

\* what holds instead: the flat field is the context's pair where the context
\* has one and the default pair where it has none, and neither place changes
\* after the parser
PairOrDefault ==
    Parsed => state.pair = DictGet(state.query_context, "pair", Str(DefaultPair))

PairKept ==
    [][ Parsed => (state'.pair = state.pair /\ state'.query_context = state.query_context) ]_vars

(***************************************************************************)
(* Direction and side of the stop.                                         *)
(***************************************************************************)
\* C37: for fixed entry, stop_loss, take_profit, balance and fraction,
\* risk_in_pips, position_size and trade_approved are identical for direction
\* BUY and SELL, whichever side of the entry the stop-loss lies on;
\* risk_in_pips is never negative, and the 'risk must be positive' rule
\* rejects only when stop_loss equals entry
C37_DirectionIndependent ==
    ~IsNone(verdict) =>
        /\ trade = Reversed(earlier.trade)
            => /\ verdict.risk_in_pips = earlier.verdict.risk_in_pips
               /\ verdict.data.risk_in_pips = earlier.verdict.data.risk_in_pips
               /\ verdict.data.position_size = earlier.verdict.data.position_size
               /\ verdict.trade_approved = earlier.verdict.trade_approved
        /\ ~FloatLess(verdict.risk_in_pips, FloatOf(0, 0))
        /\ verdict.rejection_reason = "Invalid stop loss"
            => trade.stop_loss = trade.entry_price

\* a SELL with its stop below the entry was checked after the BUY of the same
\* prices, and approved
C37_Witness ==
    /\ ~IsNone(verdict)
    /\ trade = Reversed(earlier.trade)
    /\ trade.direction = "SELL"
    /\ trade.stop_loss < trade.entry_price
    /\ verdict.trade_approved

\* the 'risk must be positive' rule rejected a trade whose stop is the entry
C37_WitnessRejected ==
    /\ ~IsNone(verdict)
    /\ trade.stop_loss = trade.entry_price
    /\ verdict.rejection_reason = "Invalid stop loss"

(***************************************************************************)
(* Progress percentages of one provider call.                              *)
(***************************************************************************)
\* the positions of `written` holding the step "complete"
Completes == {i \in 1..Len(written) : written[i].step = "complete"}

\* C38: within one branch the progress_percentage values of successive
\* agent_progress events never decrease, and the step "complete" (100) is
\* emitted at most once and only as the branch's last progress event, on every
\* path through the agent, the fallback to rule-based analysis included
C38_ProgressMonotone ==
    /\ \A i \in 1..(Len(written) - 1) :
          written[i].progress_percentage <= written[i + 1].progress_percentage
    /\ Cardinality(Completes) <= 1
    /\ Completes \subseteq {Len(written)}
    /\ \A i \in Completes : written[i].progress_percentage = 100

\* what holds on every path: "complete" is written at most once, as the last
\* event and with 100, and it is written by every call that returns a success
CompleteOnceAndLast ==
    /\ Cardinality(Completes) <= 1
    /\ Completes \subseteq {Len(written)}
    /\ \A i \in Completes : written[i].progress_percentage = 100
    /\ outcome = "returned" => Completes # {}

\* and the only place where the percentage decreases is the entry into the
\* rule-based analysis after the reasoning output was rejected
DecreaseOnlyAtFallback ==
    \A i \in 1..(Len(written) - 1) :
        written[i].progress_percentage > written[i + 1].progress_percentage
            => /\ written[i + 1] = Agents[provider]._analyze_rule_based[1]
               /\ written[i].step \in {"parsing_analysis", "parsing_response"}

(***************************************************************************)
(* The price cache.                                                        *)
(***************************************************************************)
\* a call of get_price or get_enriched_price on s
Gets(s) == GetPrice(s) \/ GetEnrichedPrice(s) \/ EnrichedPriceRaises(s)

SameKeys == DOMAIN _cache = DOMAIN _cache_timestamps

\* C39: get_price returns a cached entry only if it was stored at most
\* CACHE_DURATION (60 seconds) earlier; an older entry is removed from both the
\* cache and the timestamp table and a fresh fetch is made; a failed fetch
\* (None) is never stored, so the two tables always have the same key set and
\* every cached value is a successful price
C39_CacheFresh ==
    /\ [](/\ SameKeys
          /\ \A s \in DOMAIN _cache : ~IsNone(_cache[s]) /\ "price" \in DOMAIN _cache[s])
    /\ [][\A s \in PricePairs : Gets(s) =>
             /\ delivered'.from = "cache" =>
                   /\ s \in DOMAIN _cache
                   /\ clock - _cache_timestamps[s] <= CACHE_DURATION
                   /\ delivered'.result.timestamp = _cache[s].timestamp
             /\ (s \in DOMAIN _cache /\ clock - _cache_timestamps[s] > CACHE_DURATION) =>
                   /\ delivered'.from \in {"fetch", "raised"}
                   /\ IsNone(delivered'.result) =>
                         s \notin (DOMAIN _cache') \cup (DOMAIN _cache_timestamps')
                   /\ ~IsNone(delivered'.result) =>
                         /\ _cache'[s].timestamp = clock
                         /\ _cache_timestamps'[s] = clock
             /\ IsNone(delivered'.result) => s \notin DOMAIN _cache'
             /\ \A other \in PricePairs \ {s} :
                   /\ other \in DOMAIN _cache' <=> other \in DOMAIN _cache
                   /\ other \in DOMAIN _cache => _cache'[other] = _cache[other]]_vars

\* an entry older than CACHE_DURATION was asked for, the fetch failed, and the
\* pair is in neither table
C39_Witness ==
    /\ ~IsNone(delivered)
    /\ delivered.age > CACHE_DURATION
    /\ delivered.from = "fetch"
    /\ IsNone(delivered.result)
    /\ delivered.pair \notin (DOMAIN _cache) \cup (DOMAIN _cache_timestamps)

\* an entry exactly CACHE_DURATION old was returned from the cache
C39_WitnessBoundary ==
    /\ ~IsNone(delivered)
    /\ delivered.from = "cache"
    /\ delivered.age = CACHE_DURATION

\* an expired entry was replaced by a fresh one
C39_WitnessRefetched ==
    /\ ~IsNone(delivered)
    /\ delivered.age > CACHE_DURATION
    /\ delivered.from = "fetch"
    /\ ~IsNone(delivered.result)
    /\ _cache_timestamps[delivered.pair] = clock

====
